---- MODULE Spec2Model ----
(***************************************************************************)
(* A model of the HearthStone rules engine of a2.py: the card catalog,     *)
(* Entity arithmetic, CardDeck, Hero, the minion targeting policies and    *)
(* HearthModel (play_card, discard_card, end_turn).                        *)
(*                                                                         *)
(* Python objects are modelled by identity: every card object has an id in *)
(* the heap `cards`; decks, hands and rosters are sequences of ids; the    *)
(* two heroes are the objects PlayerId and EnemyId.                        *)
(***************************************************************************)
EXTENDS Integers, Sequences, FiniteSets, TLC

VARIABLES
    cards,                  \* heap: object id -> the fields of the object
    player,                 \* HearthModel._player (a Hero)
    enemy,                  \* HearthModel._enemy (a Hero)
    active_player_minions,  \* HearthModel._active_player_minions (ids)
    active_enemy_minions,   \* HearthModel._active_enemy_minions (ids)
    pc,                     \* position inside end_turn, "idle" between calls
    iter,                   \* the list object a minion for-loop iterates
    idx,                    \* position of that for-loop in iter (1-based)
    played,                 \* end_turn's local _played_cards
    op,                     \* the operation last called, its arguments and
                            \* the world it was called on (before)
    ret,                    \* what the operation last completed returned
    trace,                  \* the steps the current/last end_turn performed
    turn,                   \* number of end_turn calls made so far
    autosave                \* the content of the autosave file

vars == <<cards, player, enemy, active_player_minions, active_enemy_minions,
          pc, iter, idx, played, op, ret, trace, turn, autosave>>

---------------------------------------------------------------------------
(* Bounds of the exploration *)

MaxTurns == 2
MaxEntityHealth == 5
MaxEntityShield == 4
MaxAmount == 7
MaxLoopHand == 3
MaxLoopEnergy == 4
MaxTargetRoster == 3
MaxTargetHealth == 2
MaxDeckLen == 4
MaxDraw == 6
MaxHeroHand == 7
MaxHeroDeck == 4
MaxHeroCapacity == 2
MaxPlayTurns == 4

---------------------------------------------------------------------------
(* support.py *)

CARD_NAME == "Card"
CARD_SYMBOL == <<"C">>
SHIELD_NAME == "Shield"
SHIELD_SYMBOL == <<"S">>
HEAL_NAME == "Heal"
HEAL_SYMBOL == <<"H">>
FIREBALL_NAME == "Fireball"
MINION_NAME == "Minion"
MINION_SYMBOL == <<"M">>
RAPTOR_NAME == "Raptor"
RAPTOR_SYMBOL == <<"R">>
WYRM_NAME == "Wyrm"
WYRM_SYMBOL == <<"W">>

DAMAGE == "damage"
SHIELD == "shield"
HEALTH == "health"

---------------------------------------------------------------------------
(* Generic helpers: Python built-ins used by the code *)

Max(a, b) == IF a >= b THEN a ELSE b
Min(a, b) == IF a <= b THEN a ELSE b

DigitChars == <<"0", "1", "2", "3", "4", "5", "6", "7", "8", "9">>

\* str(n) for n >= 0, as the sequence of its decimal characters
RECURSIVE Str(_)
Str(n) == IF n < 10 THEN <<DigitChars[n + 1]>>
          ELSE Str(n \div 10) \o <<DigitChars[(n % 10) + 1]>>

\* str.isdigit(): non-empty and every character a decimal digit
IsDigit(s) == /\ Len(s) > 0
              /\ \A i \in 1..Len(s) : \E d \in 1..10 : DigitChars[d] = s[i]

DigitValue(ch) == (CHOOSE d \in 1..10 : DigitChars[d] = ch) - 1

\* int(s) for a string of decimal digits
RECURSIVE ToInt(_)
ToInt(s) == IF Len(s) = 0 THEN 0
            ELSE 10 * ToInt(SubSeq(s, 1, Len(s) - 1)) + DigitValue(s[Len(s)])

\* list.remove(x): removes the first element equal to x (x is in s)
ListRemove(s, x) ==
    LET i == CHOOSE k \in 1..Len(s) :
                 s[k] = x /\ \A j \in 1..(k - 1) : s[j] # x
    IN  SubSeq(s, 1, i - 1) \o SubSeq(s, i + 1, Len(s))

\* list.pop(0) seen as the list that remains
PopFront(s) == SubSeq(s, 2, Len(s))

\* s[0:n] with Python's slice rules (n may be negative or exceed len(s))
SliceTo(s, n) ==
    LET stop == IF n < 0 THEN Max(0, Len(s) + n) ELSE Min(n, Len(s))
    IN  SubSeq(s, 1, stop)

\* what `del s[0:n]` leaves
SliceFrom(s, n) ==
    LET stop == IF n < 0 THEN Max(0, Len(s) + n) ELSE Min(n, Len(s))
    IN  SubSeq(s, stop + 1, Len(s))

---------------------------------------------------------------------------
(* The card catalog: class Card and its subclasses *)

EmptyEffect == [k \in {} |-> 0]

Card == [type |-> "Card", name |-> CARD_NAME, symbol |-> CARD_SYMBOL,
         cost |-> 1, effect |-> EmptyEffect, is_permanent |-> FALSE]

Shield == [type |-> "Shield", name |-> SHIELD_NAME, symbol |-> SHIELD_SYMBOL,
           cost |-> 1, effect |-> (SHIELD :> 5), is_permanent |-> FALSE]

Heal == [type |-> "Heal", name |-> HEAL_NAME, symbol |-> HEAL_SYMBOL,
         cost |-> 2, effect |-> (HEALTH :> 2), is_permanent |-> FALSE]

Fireball(turns_in_hand) ==
    [type |-> "Fireball", name |-> FIREBALL_NAME,
     symbol |-> Str(turns_in_hand), cost |-> 3,
     effect |-> (DAMAGE :> (turns_in_hand + 3)), is_permanent |-> FALSE,
     turns_in_hand |-> turns_in_hand]

\* an increment_turn that leaves the damage as it was
increment_turn_stale_damage(c) ==
    [c EXCEPT !.turns_in_hand = c.turns_in_hand + 1,
              !.symbol = Str(c.turns_in_hand + 1)]

increment_turn(c) ==
    [c EXCEPT !.turns_in_hand = c.turns_in_hand + 1,
              !.symbol = Str(c.turns_in_hand + 1),
              !.effect = [@ EXCEPT ![DAMAGE] = (c.turns_in_hand + 1) + 3]]

Minion(health, shield) ==
    [type |-> "Minion", name |-> MINION_NAME, symbol |-> MINION_SYMBOL,
     cost |-> 2, effect |-> EmptyEffect, is_permanent |-> TRUE,
     health |-> health, shield |-> shield]

Wyrm(health, shield) ==
    [type |-> "Wyrm", name |-> WYRM_NAME, symbol |-> WYRM_SYMBOL,
     cost |-> 2, effect |-> ((HEALTH :> 1) @@ (SHIELD :> 1)),
     is_permanent |-> TRUE, health |-> health, shield |-> shield]

Raptor(health, shield) ==
    [type |-> "Raptor", name |-> RAPTOR_NAME, symbol |-> RAPTOR_SYMBOL,
     cost |-> 2, effect |-> (DAMAGE :> health),
     is_permanent |-> TRUE, health |-> health, shield |-> shield]

\* get_effect() as a write to the object: Raptor overrides it and stores
\* its current health as DAMAGE first; for every other card nothing changes
\* a get_effect that returns the effect stored at construction
get_effect_stale(c) == c

get_effect_refresh(c) ==
    IF c.type = "Raptor" THEN [c EXCEPT !.effect = (DAMAGE :> c.health)]
    ELSE c

---------------------------------------------------------------------------
(* class Entity: works on any record with health and shield *)

Entity(health, shield) == [health |-> health, shield |-> shield]

apply_shield(e, shield) == [e EXCEPT !.shield = e.shield + shield]

apply_health(e, health) == [e EXCEPT !.health = e.health + health]

\* apply_damage without the reset of a negative health to 0
apply_damage_unclamped(e, damage) ==
    IF damage <= e.shield
    THEN [e EXCEPT !.shield = e.shield - damage]
    ELSE [e EXCEPT !.shield = 0,
                   !.health = e.health - (damage - e.shield)]

apply_damage(e, damage) ==
    IF damage <= e.shield
    THEN [e EXCEPT !.shield = e.shield - damage]
    ELSE LET damage_to_health == damage - e.shield
             h == e.health - damage_to_health
         IN  [e EXCEPT !.shield = 0,
                       !.health = IF h < 0 THEN 0 ELSE h]

is_alive(e) == e.health > 0

---------------------------------------------------------------------------
(* class CardDeck: a deck is the sequence _cards *)

\* draw_cards that leaves the deck as it is when asked for more than it has
draw_cards_overdraw_keeps(deck, num) ==
    IF num > Len(deck)
    THEN [drawn |-> deck, rest |-> deck]
    ELSE [drawn |-> SliceTo(deck, num), rest |-> SliceFrom(deck, num)]

\* a draw_cards that takes the cards from the back of the deck
draw_cards_from_back(deck, num) ==
    IF num > Len(deck)
    THEN [drawn |-> deck, rest |-> <<>>]
    ELSE [drawn |-> SubSeq(deck, Len(deck) - Max(0, num) + 1, Len(deck)),
          rest |-> SubSeq(deck, 1, Len(deck) - Max(0, num))]

\* draw_cards(num): the cards returned and the cards left in the deck
draw_cards(deck, num) ==
    IF num > Len(deck)
    THEN [drawn |-> deck, rest |-> <<>>]
    ELSE [drawn |-> SliceTo(deck, num), rest |-> SliceFrom(deck, num)]

add_card(deck, card) == Append(deck, card)

remaining_count(deck) == Len(deck)

---------------------------------------------------------------------------
(* class Hero *)

\* a Hero constructed with no energy to spend
Hero_no_energy(health, shield, max_energy, deck, hand) ==
    [health |-> health, shield |-> shield,
     energy_capacity |-> max_energy, energy |-> 0,
     deck |-> deck, hand |-> hand]

Hero(health, shield, max_energy, deck, hand) ==
    [health |-> health, shield |-> shield,
     energy_capacity |-> max_energy, energy |-> max_energy,
     deck |-> deck, hand |-> hand]

\* spend_energy that spends energy the hero does not have
spend_energy_unchecked(h, energy) ==
    [hero |-> [h EXCEPT !.energy = h.energy - energy], ok |-> TRUE]

\* spend_energy that lets the hero overdraw by one
spend_energy_overdraw(h, energy) ==
    IF energy <= h.energy + 1
    THEN [hero |-> [h EXCEPT !.energy = h.energy - energy], ok |-> TRUE]
    ELSE [hero |-> h, ok |-> FALSE]

\* spend_energy that refuses to spend the last of the energy
spend_energy_strict(h, energy) ==
    IF energy < h.energy
    THEN [hero |-> [h EXCEPT !.energy = h.energy - energy], ok |-> TRUE]
    ELSE [hero |-> h, ok |-> FALSE]

\* spend_energy(energy): the hero afterwards and the value returned
spend_energy(h, energy) ==
    IF energy <= h.energy
    THEN [hero |-> [h EXCEPT !.energy = h.energy - energy], ok |-> TRUE]
    ELSE [hero |-> h, ok |-> FALSE]

\* a hero that counts as alive on its health alone
hero_is_alive_ignores_deck(h) == is_alive(h)

hero_is_alive(h) == is_alive(h) /\ remaining_count(h.deck) > 0

---------------------------------------------------------------------------
(* The objects HearthModel owns, as one record `w` (the "world"):          *)
(* cards, player, enemy, active_player_minions, active_enemy_minions.      *)

PlayerId == -1
EnemyId == -2

World == [cards |-> cards, player |-> player, enemy |-> enemy,
          active_player_minions |-> active_player_minions,
          active_enemy_minions |-> active_enemy_minions]

\* the Entity a reference denotes: a hero or a minion of the heap
GetEntity(w, ref) ==
    IF ref = PlayerId THEN w.player
    ELSE IF ref = EnemyId THEN w.enemy
    ELSE w.cards[ref]

SetEntity(w, ref, e) ==
    IF ref = PlayerId THEN [w EXCEPT !.player = e]
    ELSE IF ref = EnemyId THEN [w EXCEPT !.enemy = e]
    ELSE [w EXCEPT !.cards[ref] = e]

\* Hero.new_turn, the loop over the hand: every Fireball gets a turn
RECURSIVE IncrementFireballs(_, _, _)
IncrementFireballs(heap, hand, i) ==
    IF i > Len(hand) THEN heap
    ELSE LET c == hand[i]
             heap2 == IF heap[c].name = FIREBALL_NAME
                      THEN [heap EXCEPT ![c] = increment_turn(heap[c])]
                      ELSE heap
         IN  IncrementFireballs(heap2, hand, i + 1)

\* a new_turn that draws 5 cards whatever the hand holds
new_turn_draws_five(w, who) ==
    LET h == GetEntity(w, who)
        heap == IncrementFireballs(w.cards, h.hand, 1)
        d == draw_cards(h.deck, 5)
        h2 == [h EXCEPT !.hand = h.hand \o d.drawn,
                        !.deck = d.rest,
                        !.energy_capacity = h.energy_capacity + 1,
                        !.energy = h.energy_capacity + 1]
    IN  SetEntity([w EXCEPT !.cards = heap], who, h2)

\* a new_turn that refills the energy and leaves the capacity as it was
new_turn_keeps_capacity(w, who) ==
    LET h == GetEntity(w, who)
        heap == IncrementFireballs(w.cards, h.hand, 1)
        num_to_draw == 5 - Len(h.hand)
        d == draw_cards(h.deck, num_to_draw)
        h2 == [h EXCEPT !.hand = h.hand \o d.drawn,
                        !.deck = d.rest,
                        !.energy = h.energy_capacity]
    IN  SetEntity([w EXCEPT !.cards = heap], who, h2)

\* a new_turn that draws first and then gives every Fireball of the hand a turn
new_turn_draw_first(w, who) ==
    LET h == GetEntity(w, who)
        num_to_draw == 5 - Len(h.hand)
        d == draw_cards(h.deck, num_to_draw)
        heap == IncrementFireballs(w.cards, h.hand \o d.drawn, 1)
        h2 == [h EXCEPT !.hand = h.hand \o d.drawn,
                        !.deck = d.rest,
                        !.energy_capacity = h.energy_capacity + 1,
                        !.energy = h.energy_capacity + 1]
    IN  SetEntity([w EXCEPT !.cards = heap], who, h2)

\* Hero.new_turn of the hero `who`
new_turn(w, who) ==
    LET h == GetEntity(w, who)
        heap == IncrementFireballs(w.cards, h.hand, 1)
        num_to_draw == 5 - Len(h.hand)
        d == draw_cards(h.deck, num_to_draw)
        h2 == [h EXCEPT !.hand = h.hand \o d.drawn,
                        !.deck = d.rest,
                        !.energy_capacity = h.energy_capacity + 1,
                        !.energy = h.energy_capacity + 1]
    IN  SetEntity([w EXCEPT !.cards = heap], who, h2)

---------------------------------------------------------------------------
(* choose_target of Minion, Wyrm and Raptor *)

\* a scan in which a minion that ties the lowest health replaces the choice
RECURSIVE WyrmScan_last_wins(_, _, _, _)
WyrmScan_last_wins(w, lowest_health, ally_minions, i) ==
    IF i > Len(ally_minions) THEN lowest_health
    ELSE LET minion == ally_minions[i]
         IN  WyrmScan_last_wins(w,
                 IF GetEntity(w, minion).health
                        <= GetEntity(w, lowest_health).health
                 THEN minion ELSE lowest_health,
                 ally_minions, i + 1)

RECURSIVE WyrmScan(_, _, _, _)
WyrmScan(w, lowest_health, ally_minions, i) ==
    IF i > Len(ally_minions) THEN lowest_health
    ELSE LET minion == ally_minions[i]
         IN  WyrmScan(w,
                 IF GetEntity(w, minion).health
                        < GetEntity(w, lowest_health).health
                 THEN minion ELSE lowest_health,
                 ally_minions, i + 1)

\* a scan in which a minion that ties the highest health replaces the choice
RECURSIVE RaptorScan_last_wins(_, _, _, _)
RaptorScan_last_wins(w, highest_health, enemy_minions, i) ==
    IF i > Len(enemy_minions) THEN highest_health
    ELSE LET minion == enemy_minions[i]
         IN  RaptorScan_last_wins(w,
                 IF GetEntity(w, minion).health
                        >= GetEntity(w, highest_health).health
                 THEN minion ELSE highest_health,
                 enemy_minions, i + 1)

RECURSIVE RaptorScan(_, _, _, _)
RaptorScan(w, highest_health, enemy_minions, i) ==
    IF i > Len(enemy_minions) THEN highest_health
    ELSE LET minion == enemy_minions[i]
         IN  RaptorScan(w,
                 IF GetEntity(w, minion).health
                        > GetEntity(w, highest_health).health
                 THEN minion ELSE highest_health,
                 enemy_minions, i + 1)

\* a choose_target in which a generic Minion picks its own hero
choose_target_own_hero(w, self, ally_hero, enemy_hero, ally_minions, enemy_minions) ==
    IF w.cards[self].type = "Wyrm"
    THEN WyrmScan(w, ally_hero, ally_minions, 1)
    ELSE IF w.cards[self].type = "Raptor"
    THEN IF Len(enemy_minions) > 0
         THEN RaptorScan(w, enemy_minions[1], enemy_minions, 1)
         ELSE enemy_hero
    ELSE ally_hero

choose_target(w, self, ally_hero, enemy_hero, ally_minions, enemy_minions) ==
    IF w.cards[self].type = "Wyrm"
    THEN WyrmScan(w, ally_hero, ally_minions, 1)
    ELSE IF w.cards[self].type = "Raptor"
    THEN IF Len(enemy_minions) > 0
         THEN RaptorScan(w, enemy_minions[1], enemy_minions, 1)
         ELSE enemy_hero
    ELSE self

---------------------------------------------------------------------------
(* HearthModel helpers *)

remove_defeated_minions(w) ==
    [w EXCEPT
       !.active_player_minions =
           SelectSeq(w.active_player_minions,
                     LAMBDA m : is_alive(w.cards[m])),
       !.active_enemy_minions =
           SelectSeq(w.active_enemy_minions,
                     LAMBDA m : is_alive(w.cards[m]))]

\* card.get_effect() evaluated on the world: the effect read, and the
\* world with the Raptor's stored effect refreshed
ReadEffect(w, card) == get_effect_refresh(w.cards[card]).effect
Refreshed(w, card) == [w EXCEPT !.cards[card] = get_effect_refresh(@)]

\* _use_effect that does not prune the rosters after the effect
use_effect_no_final_prune(w, card, target) ==
    LET w0 == remove_defeated_minions(w)
        w1 == Refreshed(w0, card)
        effect == ReadEffect(w0, card)
        e0 == GetEntity(w1, target)
        e1 == IF DAMAGE \in DOMAIN effect
              THEN apply_damage(e0, effect[DAMAGE]) ELSE e0
        e2 == IF HEALTH \in DOMAIN effect
              THEN apply_health(e1, effect[HEALTH]) ELSE e1
        e3 == IF SHIELD \in DOMAIN effect
              THEN apply_shield(e2, effect[SHIELD]) ELSE e2
    IN  SetEntity(w1, target, e3)

use_effect(w, card, target) ==
    LET w0 == remove_defeated_minions(w)
        w1 == Refreshed(w0, card)
        w2 == IF DAMAGE \in DOMAIN ReadEffect(w0, card)
              THEN SetEntity(w1, target,
                       apply_damage(GetEntity(w1, target),
                                    ReadEffect(w1, card)[DAMAGE]))
              ELSE w1
        w3 == Refreshed(w2, card)
        w4 == IF HEALTH \in DOMAIN ReadEffect(w2, card)
              THEN SetEntity(w3, target,
                       apply_health(GetEntity(w3, target),
                                    ReadEffect(w3, card)[HEALTH]))
              ELSE w3
        w5 == Refreshed(w4, card)
        w6 == IF SHIELD \in DOMAIN ReadEffect(w4, card)
              THEN SetEntity(w5, target,
                       apply_shield(GetEntity(w5, target),
                                    ReadEffect(w5, card)[SHIELD]))
              ELSE w5
    IN  remove_defeated_minions(w6)

\* a roster that drops its rightmost minion when full
InsertMinion_drop_right(roster, card) ==
    Append(IF Len(roster) = 5 THEN SubSeq(roster, 1, 4) ELSE roster, card)

\* a roster whose leftmost minion goes one insertion too late
InsertMinion_late_pop(roster, card) ==
    Append(IF Len(roster) = 6 THEN PopFront(roster) ELSE roster, card)

\* a roster that never drops a minion
InsertMinion_unbounded(roster, card) == Append(roster, card)

\* the roster after a minion is put into a slot: the leftmost one goes
\* when all 5 slots are taken
InsertMinion(roster, card) ==
    Append(IF Len(roster) = 5 THEN PopFront(roster) ELSE roster, card)

\* a win decided by the enemy hero alone
has_won_enemy_only(w) == ~hero_is_alive(w.enemy)

has_won(w) == hero_is_alive(w.player) /\ ~hero_is_alive(w.enemy)

has_lost(w) == ~hero_is_alive(w.player)

---------------------------------------------------------------------------
(* Hearthstone._generate_cards / _generate_hero / _generate_minions: the   *)
(* objects a game starts from.  A field list is what split(",") yields.    *)

RECURSIVE generate_cards(_)
generate_cards(symbols) ==
    IF Len(symbols) = 0 THEN <<>>
    ELSE LET symbol == Head(symbols)
             made == IF symbol = CARD_SYMBOL THEN <<Card>>
                     ELSE IF symbol = SHIELD_SYMBOL THEN <<Shield>>
                     ELSE IF symbol = HEAL_SYMBOL THEN <<Heal>>
                     ELSE IF IsDigit(symbol) THEN <<Fireball(ToInt(symbol))>>
                     ELSE IF symbol = MINION_SYMBOL THEN <<Minion(1, 0)>>
                     ELSE IF symbol = RAPTOR_SYMBOL THEN <<Raptor(1, 0)>>
                     ELSE IF symbol = WYRM_SYMBOL THEN <<Wyrm(1, 0)>>
                     ELSE <<>>
         IN  made \o generate_cards(Tail(symbols))

RECURSIVE generate_minions(_)
generate_minions(minions) ==
    IF Len(minions) = 0 THEN <<>>
    ELSE LET symbol == Head(minions)[1]
             health == Head(minions)[2]
             shield == Head(minions)[3]
             made == IF symbol = MINION_SYMBOL
                     THEN <<Minion(ToInt(health), ToInt(shield))>>
                     ELSE IF symbol = RAPTOR_SYMBOL
                     THEN <<Raptor(ToInt(health), ToInt(shield))>>
                     ELSE IF symbol = WYRM_SYMBOL
                     THEN <<Wyrm(ToInt(health), ToInt(shield))>>
                     ELSE <<>>
         IN  made \o generate_minions(Tail(minions))

\* the ids off+1 .. off+n, in order
IdRange(off, n) == [i \in 1..n |-> off + i]

\* HearthModel(player, active_player_minions, enemy, active_enemy_minions)
\* built from the parsed fields `g` of a game description; every object
\* created gets the next free id
load_game(g) ==
    LET pd == generate_cards(g.player.deck)
        ph == generate_cards(g.player.hand)
        pm == generate_minions(g.player_minions)
        ed == generate_cards(g.enemy.deck)
        eh == generate_cards(g.enemy.hand)
        em == generate_minions(g.enemy_minions)
        heap == pd \o ph \o pm \o ed \o eh \o em
        o1 == Len(pd)
        o2 == o1 + Len(ph)
        o3 == o2 + Len(pm)
        o4 == o3 + Len(ed)
        o5 == o4 + Len(eh)
    IN  [cards |-> heap,
         player |-> Hero(ToInt(g.player.stats[1]), ToInt(g.player.stats[2]),
                         ToInt(g.player.stats[3]),
                         IdRange(0, Len(pd)), IdRange(o1, Len(ph))),
         active_player_minions |-> IdRange(o2, Len(pm)),
         enemy |-> Hero(ToInt(g.enemy.stats[1]), ToInt(g.enemy.stats[2]),
                        ToInt(g.enemy.stats[3]),
                        IdRange(o3, Len(ed)), IdRange(o4, Len(eh))),
         active_enemy_minions |-> IdRange(o5, Len(em))]

---------------------------------------------------------------------------
(* HearthModel.play_card and discard_card as functions of the world *)

NoRaise == ""

\* what ret holds while end_turn has been called and has not returned yet
Pending == <<"pending">>

\* the autosave file before save_game has written it
NoSave == <<>>

\* play_card that takes the first card out of the hand, whichever was played
play_card_pops_first(w, card, target) ==
    LET s == spend_energy(w.player, w.cards[card].cost)
    IN  IF s.ok
        THEN LET w1 == [w EXCEPT !.player =
                           [s.hero EXCEPT !.hand = PopFront(@)]]
             IN  IF w.cards[card].is_permanent
                 THEN [w |-> [w1 EXCEPT !.active_player_minions =
                                 InsertMinion(@, card)],
                       raised |-> NoRaise, value |-> TRUE]
                 ELSE [w |-> use_effect(w1, card, target),
                       raised |-> NoRaise, value |-> TRUE]
        ELSE [w |-> w, raised |-> NoRaise, value |-> FALSE]

\* play_card(card, target): the world afterwards and what the call returned
\* or raised
\* a play_card that puts the minion pushed out of a full roster at the
\* bottom of the player's deck
play_card_requeues(w, card, target) ==
    LET s == spend_energy(w.player, w.cards[card].cost)
    IN  IF s.ok
        THEN LET w1 == [w EXCEPT !.player =
                           [s.hero EXCEPT !.hand = ListRemove(@, card)]]
             IN  IF w.cards[card].is_permanent
                 THEN LET old == w1.active_player_minions
                          roster == InsertMinion(old, card)
                          w2 == [w1 EXCEPT !.active_player_minions = roster]
                      IN  [w |-> IF Len(old) = 5
                                 THEN [w2 EXCEPT !.player.deck =
                                                     Append(@, old[1])]
                                 ELSE w2,
                           raised |-> NoRaise, value |-> TRUE]
                 ELSE [w |-> use_effect(w1, card, target),
                       raised |-> NoRaise, value |-> TRUE]
        ELSE [w |-> w, raised |-> NoRaise, value |-> FALSE]

play_card(w, card, target) ==
    LET s == spend_energy(w.player, w.cards[card].cost)
    IN  IF s.ok
        THEN LET w1 == [w EXCEPT !.player =
                           [s.hero EXCEPT !.hand = ListRemove(@, card)]]
             IN  IF w.cards[card].is_permanent
                 THEN LET roster == InsertMinion(w1.active_player_minions,
                                                 card)
                          w2 == [w1 EXCEPT !.active_player_minions = roster]
                      IN  IF Len(roster) > 5
                          THEN [w |-> w2, raised |-> "TypeError",
                                value |-> FALSE]
                          ELSE [w |-> w2, raised |-> NoRaise, value |-> TRUE]
                 ELSE [w |-> use_effect(w1, card, target),
                       raised |-> NoRaise, value |-> TRUE]
        ELSE [w |-> w, raised |-> NoRaise, value |-> FALSE]

\* discard_card that leaves the card in the hand as well
discard_card_keeps_in_hand(w, card) ==
    [w EXCEPT !.player.deck = add_card(@, card)]

\* discard_card that puts the card on top of the deck
discard_card_to_top(w, card) ==
    LET w1 == [w EXCEPT !.player.deck = <<card>> \o @]
    IN  [w1 EXCEPT !.player.hand = ListRemove(@, card)]

discard_card(w, card) ==
    LET w1 == [w EXCEPT !.player.deck = add_card(@, card)]
    IN  [w1 EXCEPT !.player.hand = ListRemove(@, card)]

---------------------------------------------------------------------------
(* HearthModel.end_turn, the enemy's card loop *)

\* a scan that passes over a card costing all the energy that is left
RECURSIVE ScanHand_strict(_, _, _)
ScanHand_strict(w, i, skipped_cards) ==
    IF i > Len(w.enemy.hand)
    THEN [hit |-> 0, skipped_cards |-> skipped_cards]
    ELSE IF w.cards[w.enemy.hand[i]].cost < w.enemy.energy
    THEN [hit |-> i, skipped_cards |-> skipped_cards]
    ELSE ScanHand_strict(w, i + 1, skipped_cards + 1)

\* the for-loop over the enemy's hand: the index of the first card the
\* enemy can pay for (0 if the loop runs off the end) and _skipped_cards
RECURSIVE ScanHand(_, _, _)
ScanHand(w, i, skipped_cards) ==
    IF i > Len(w.enemy.hand)
    THEN [hit |-> 0, skipped_cards |-> skipped_cards]
    ELSE IF spend_energy(w.enemy, w.cards[w.enemy.hand[i]].cost).ok
    THEN [hit |-> i, skipped_cards |-> skipped_cards]
    ELSE ScanHand(w, i + 1, skipped_cards + 1)

\* an enemy that aims every card at the player hero
EnemyCardTarget_always_player(w, card) == PlayerId

\* whom a card the enemy plays is aimed at
EnemyCardTarget(w, card) ==
    IF DAMAGE \in DOMAIN ReadEffect(w, card) THEN PlayerId ELSE EnemyId

\* a loop body that leaves the card it played in the enemy's hand
EnemyPlays_keeps_card(w, i) ==
    LET card == w.enemy.hand[i]
        w1 == [w EXCEPT !.enemy = spend_energy(w.enemy, w.cards[card].cost).hero]
    IN  IF w1.cards[card].is_permanent
        THEN [w1 EXCEPT !.active_enemy_minions = InsertMinion(@, card)]
        ELSE use_effect(w1, card, EnemyCardTarget(w1, card))

\* the body of the for-loop for the card at hand index i
EnemyPlays(w, i) ==
    LET card == w.enemy.hand[i]
        w1 == [w EXCEPT !.enemy = spend_energy(w.enemy, w.cards[card].cost).hero]
        w2 == IF w1.cards[card].is_permanent
              THEN [w1 EXCEPT !.active_enemy_minions = InsertMinion(@, card)]
              ELSE use_effect(w1, card, EnemyCardTarget(w1, card))
    IN  [w2 EXCEPT !.enemy.hand = ListRemove(@, card)]

\* a pass that ends the loop whatever it did
EnemyLoopPass_one_pass(w) ==
    LET scan == ScanHand(w, 1, 0)
        w1 == IF scan.hit = 0 THEN w ELSE EnemyPlays(w, scan.hit)
    IN  [w |-> w1,
         card |-> IF scan.hit = 0 THEN 0 ELSE w.enemy.hand[scan.hit],
         playing_cards |-> FALSE]

\* one pass of `while _playing_cards`: the world afterwards, the card
\* played (0 if none) and whether _playing_cards stays true
EnemyLoopPass(w) ==
    LET scan == ScanHand(w, 1, 0)
        w1 == IF scan.hit = 0 THEN w ELSE EnemyPlays(w, scan.hit)
    IN  [w |-> w1,
         card |-> IF scan.hit = 0 THEN 0 ELSE w.enemy.hand[scan.hit],
         playing_cards |-> ~(scan.skipped_cards >= Len(w1.enemy.hand))]

---------------------------------------------------------------------------
(* The snapshot line: HearthModel.__str__ and Hearthstone.load_game on    *)
(* strings, a string being the sequence of its characters.                *)

\* sep.join(parts) for a one-character separator
RECURSIVE Join(_, _)
Join(parts, sep) ==
    IF Len(parts) = 0 THEN <<>>
    ELSE IF Len(parts) = 1 THEN parts[1]
    ELSE parts[1] \o <<sep>> \o Join(Tail(parts), sep)

\* s.split(sep) for a one-character separator: "" gives [""]
RECURSIVE Split(_, _)
Split(s, sep) ==
    IF \A i \in 1..Len(s) : s[i] # sep THEN <<s>>
    ELSE LET i == CHOOSE k \in 1..Len(s) :
                      s[k] = sep /\ \A j \in 1..(k - 1) : s[j] # sep
         IN  <<SubSeq(s, 1, i - 1)>> \o Split(SubSeq(s, i + 1, Len(s)), sep)

\* the whitespace that occurs in the lines explored: space and newline
Whitespace == {" ", "\n"}

\* s.strip()
RECURSIVE Strip(_)
Strip(s) ==
    IF Len(s) = 0 THEN s
    ELSE IF s[1] \in Whitespace THEN Strip(Tail(s))
    ELSE IF s[Len(s)] \in Whitespace THEN Strip(SubSeq(s, 1, Len(s) - 1))
    ELSE s

\* file.readline(): the first line, its newline included
ReadLine(file) ==
    IF \A i \in 1..Len(file) : file[i] # "\n" THEN file
    ELSE SubSeq(file, 1, CHOOSE k \in 1..Len(file) :
                             file[k] = "\n"
                             /\ \A j \in 1..(k - 1) : file[j] # "\n")

\* int(s) does not raise ValueError (for text of digits, letters,
\* separators and whitespace: int() strips the whitespace around digits)
IntOk(s) == IsDigit(Strip(s))

\* get_symbol() of every card of a list
SymbolsOf(w, ids) == [i \in 1..Len(ids) |-> w.cards[ids[i]].symbol]

\* CardDeck.__str__
deck_str(w, deck) == Join(SymbolsOf(w, deck), ",")

\* a Hero.__str__ that writes the energy left in place of the capacity
hero_str_energy_left(w, h) ==
    LET stats == Str(h.health) \o <<",">> \o Str(h.shield) \o <<",">>
                     \o Str(h.energy)
        hand_symbols == Join(SymbolsOf(w, h.hand), ",")
    IN  stats \o <<";">> \o deck_str(w, h.deck) \o <<";">> \o hand_symbols

\* Hero.__str__
hero_str(w, h) ==
    LET stats == Str(h.health) \o <<",">> \o Str(h.shield) \o <<",">>
                     \o Str(h.energy_capacity)
        hand_symbols == Join(SymbolsOf(w, h.hand), ",")
    IN  stats \o <<";">> \o deck_str(w, h.deck) \o <<";">> \o hand_symbols

\* HearthModel._get_minion_info
get_minion_info(w, minions) ==
    Join([i \in 1..Len(minions) |->
              w.cards[minions[i]].symbol \o <<",">>
                  \o Str(w.cards[minions[i]].health) \o <<",">>
                  \o Str(w.cards[minions[i]].shield)],
         ";")

\* HearthModel.__str__
model_str(w) ==
    hero_str(w, w.player) \o <<"|">>
        \o get_minion_info(w, w.active_player_minions) \o <<"|">>
        \o hero_str(w, w.enemy) \o <<"|">>
        \o get_minion_info(w, w.active_enemy_minions)

\* a _generate_hero that reads a stat that is not a number as 0
hero_fields_lenient(hero) ==
    LET f == Split(hero, ";")
    IN  IF Len(f) # 3 THEN [raised |-> "ValueError"]
        ELSE LET stats == Split(f[1], ",")
             IN  IF Len(stats) # 3 THEN [raised |-> "ValueError"]
                 ELSE [raised |-> NoRaise,
                       value |-> [stats |-> [i \in 1..3 |->
                                                IF IntOk(stats[i])
                                                THEN Strip(stats[i])
                                                ELSE Str(0)],
                                  deck |-> Split(f[2], ","),
                                  hand |-> Split(f[3], ",")]]

\* _generate_hero up to the construction of the objects: the unpacking of
\* the two splits and the three int() calls raise ValueError
hero_fields(hero) ==
    LET f == Split(hero, ";")
    IN  IF Len(f) # 3 THEN [raised |-> "ValueError"]
        ELSE LET stats == Split(f[1], ",")
             IN  IF Len(stats) # 3 THEN [raised |-> "ValueError"]
                 ELSE IF \E i \in 1..3 : ~IntOk(stats[i])
                 THEN [raised |-> "ValueError"]
                 ELSE [raised |-> NoRaise,
                       value |-> [stats |-> [i \in 1..3 |-> Strip(stats[i])],
                                  deck |-> Split(f[2], ","),
                                  hand |-> Split(f[3], ",")]]

\* _generate_minions up to the construction of the objects: the unpacking
\* of a triple raises ValueError, and so does int() on the health or the
\* shield of a triple whose symbol is M, R or W
minion_fields(minions) ==
    IF Strip(minions) = <<>> THEN [raised |-> NoRaise, value |-> <<>>]
    ELSE LET ms == Split(minions, ";")
             t == [i \in 1..Len(ms) |-> Split(ms[i], ",")]
         IN  IF \E i \in 1..Len(ms) :
                    \/ Len(t[i]) # 3
                    \/ /\ t[i][1] \in {MINION_SYMBOL, RAPTOR_SYMBOL,
                                       WYRM_SYMBOL}
                       /\ ~(IntOk(t[i][2]) /\ IntOk(t[i][3]))
             THEN [raised |-> "ValueError"]
             ELSE [raised |-> NoRaise,
                   value |-> [i \in 1..Len(ms) |->
                                  <<t[i][1], Strip(t[i][2]),
                                    Strip(t[i][3])>>]]

\* Hearthstone.load_game on the content of the file: the exception raised,
\* or the model built
load_game_state(file) ==
    LET game_data == Split(ReadLine(file), "|")
    IN  IF Len(game_data) < 4 THEN [raised |-> "IndexError"]
        ELSE LET p == hero_fields(game_data[1])
                 pm == minion_fields(game_data[2])
                 e == hero_fields(game_data[3])
                 em == minion_fields(game_data[4])
             IN  IF p.raised # NoRaise THEN [raised |-> p.raised]
                 ELSE IF pm.raised # NoRaise THEN [raised |-> pm.raised]
                 ELSE IF e.raised # NoRaise THEN [raised |-> e.raised]
                 ELSE IF em.raised # NoRaise THEN [raised |-> em.raised]
                 ELSE [raised |-> NoRaise,
                       w |-> load_game([player |-> p.value,
                                        player_minions |-> pm.value,
                                        enemy |-> e.value,
                                        enemy_minions |-> em.value])]

---------------------------------------------------------------------------
(* The games explored: each is the field structure of a snapshot line     *)
(* <player>|<player_minions>|<enemy>|<enemy_minions> after splitting.      *)

HeroFields(health, shield, max_energy, deck, hand) ==
    [stats |-> <<Str(health), Str(shield), Str(max_energy)>>,
     deck |-> deck, hand |-> hand]

MinionFields(symbol, health, shield) == <<symbol, Str(health), Str(shield)>>

Game(p, pm, e, em) ==
    [player |-> p, player_minions |-> pm, enemy |-> e, enemy_minions |-> em]

S == SHIELD_SYMBOL
H == HEAL_SYMBOL
M == MINION_SYMBOL
W == WYRM_SYMBOL
R == RAPTOR_SYMBOL
F(n) == Str(n)

Games == {
    \* both rosters full, and each side with a minion to play
    Game(HeroFields(10, 0, 2, <<S, H>>, <<W>>),
         <<MinionFields(M, 5, 0), MinionFields(W, 2, 0), MinionFields(R, 1, 0),
           MinionFields(M, 2, 1), MinionFields(W, 1, 0)>>,
         HeroFields(8, 0, 2, <<S, H, R, W, M, S>>, <<M>>),
         <<MinionFields(W, 1, 0), MinionFields(R, 1, 1), MinionFields(M, 1, 0),
           MinionFields(R, 2, 0), MinionFields(W, 3, 0)>>),
    \* rosters that fill up during play
    Game(HeroFields(6, 1, 1, <<H, S>>, <<S>>),
         <<MinionFields(R, 3, 0)>>,
         HeroFields(9, 0, 3, <<W, S, H, R, S, M, F(0)>>, <<M, S>>),
         <<MinionFields(W, 1, 0), MinionFields(R, 1, 1), MinionFields(M, 1, 0),
           MinionFields(R, 2, 0)>>),
    \* an enemy hand that makes the card loop skip, play and rescan
    Game(HeroFields(12, 0, 3, <<H>>, <<F(1), S>>),
         <<MinionFields(M, 2, 0), MinionFields(M, 1, 1)>>,
         HeroFields(7, 2, 2, <<S, F(0), H, S, R, H>>, <<F(2), H, S, S>>),
         <<MinionFields(M, 4, 1)>>),
    \* an enemy whose deck runs out at its refresh
    Game(HeroFields(5, 0, 2, <<R, S, H>>, <<W, F(0)>>),
         <<MinionFields(W, 1, 0)>>,
         HeroFields(4, 0, 2, <<S>>, <<H>>),
         <<MinionFields(M, 1, 0)>>),
    \* an enemy hero within reach of a Fireball and of a Raptor, holding
    \* only cards it cannot pay for at its first refresh
    Game(HeroFields(3, 0, 3, <<S>>, <<F(0), H>>),
         <<MinionFields(R, 2, 0)>>,
         HeroFields(2, 1, 0, <<H, S, F(0)>>, <<F(0), H, M, H>>),
         <<>>)
}

---------------------------------------------------------------------------
(* The state machine *)

\* the variables the world record stands for take the values of w
Commit(w) ==
    /\ cards' = w.cards
    /\ player' = w.player
    /\ enemy' = w.enemy
    /\ active_player_minions' = w.active_player_minions
    /\ active_enemy_minions' = w.active_enemy_minions

\* the entities a caller can name as a target: a hero or a minion in a slot
SeqRange(s) == {s[i] : i \in 1..Len(s)}
Targets(w) == {PlayerId, EnemyId} \cup SeqRange(w.active_player_minions)
                                  \cup SeqRange(w.active_enemy_minions)

Init ==
    \E g \in Games :
        LET w == load_game(g)
        IN  /\ cards = w.cards
            /\ player = w.player
            /\ enemy = w.enemy
            /\ active_player_minions = w.active_player_minions
            /\ active_enemy_minions = w.active_enemy_minions
            /\ pc = "idle"
            /\ iter = <<>>
            /\ idx = 0
            /\ played = <<>>
            /\ op = [name |-> "__init__"]
            /\ ret = [raised |-> NoRaise, value |-> "None"]
            /\ trace = <<>>
            /\ turn = 0
            /\ autosave = NoSave

\* play_card(card, target) for a card of the player's hand
PlayCard ==
    /\ pc = "idle"
    /\ \E i \in 1..Len(player.hand), target \in Targets(World) :
          LET card == player.hand[i]
              r == play_card(World, card, target)
          IN  /\ Commit(r.w)
              /\ op' = [name |-> "play_card", card |-> card,
                        target |-> target, before |-> World]
              /\ ret' = [raised |-> r.raised, value |-> r.value]
    /\ UNCHANGED <<pc, iter, idx, played, trace, turn, autosave>>

\* discard_card(card) for a card of the player's hand
DiscardCard ==
    /\ pc = "idle"
    /\ \E i \in 1..Len(player.hand) :
          LET card == player.hand[i]
          IN  /\ Commit(discard_card(World, card))
              /\ op' = [name |-> "discard_card", card |-> card,
                        before |-> World]
              /\ ret' = [raised |-> NoRaise, value |-> "None"]
    /\ UNCHANGED <<pc, iter, idx, played, trace, turn, autosave>>

\* end_turn() is called: the for-loop over the player's minions starts
EndTurnCall ==
    /\ pc = "idle"
    /\ turn < MaxTurns
    /\ turn' = turn + 1
    /\ pc' = "player_minions"
    /\ iter' = active_player_minions
    /\ idx' = 1
    /\ played' = <<>>
    /\ trace' = <<>>
    /\ op' = [name |-> "end_turn", before |-> World]
    /\ ret' = [raised |-> NoRaise, value |-> Pending]
    /\ UNCHANGED <<cards, player, enemy, active_player_minions,
                   active_enemy_minions, autosave>>

\* the for-loop over the player's minions run from the right
PlayerMinionActs_right_to_left ==
    /\ pc = "player_minions"
    /\ idx <= Len(iter)
    /\ LET minion == iter[Len(iter) + 1 - idx]
           target == choose_target(World, minion, PlayerId, EnemyId,
                                   active_player_minions,
                                   active_enemy_minions)
       IN  /\ Commit(use_effect(World, minion, target))
           /\ trace' = Append(trace, [step |-> "player_minion",
                                      minion |-> minion, target |-> target])
    /\ idx' = idx + 1
    /\ UNCHANGED <<pc, iter, played, op, ret, turn, autosave>>

\* one pass of the for-loop over the player's minions
PlayerMinionActs ==
    /\ pc = "player_minions"
    /\ idx <= Len(iter)
    /\ LET minion == iter[idx]
           target == choose_target(World, minion, PlayerId, EnemyId,
                                   active_player_minions,
                                   active_enemy_minions)
       IN  /\ Commit(use_effect(World, minion, target))
           /\ trace' = Append(trace, [step |-> "player_minion",
                                      minion |-> minion, target |-> target])
    /\ idx' = idx + 1
    /\ UNCHANGED <<pc, iter, played, op, ret, turn, autosave>>

\* an enemy refresh followed by a check of the enemy's health alone
EnemyNewTurn_health_only ==
    /\ pc = "player_minions"
    /\ idx > Len(iter)
    /\ LET w == new_turn(World, EnemyId)
       IN  /\ Commit(w)
           /\ trace' = Append(trace, [step |-> "enemy_new_turn"])
           /\ IF ~is_alive(w.enemy)
              THEN /\ pc' = "idle"
                   /\ ret' = [raised |-> NoRaise, value |-> <<>>]
              ELSE /\ pc' = "enemy_cards"
                   /\ ret' = ret
    /\ iter' = <<>>
    /\ idx' = 0
    /\ UNCHANGED <<played, op, turn, autosave>>

\* self._enemy.new_turn() and the check that the enemy is still alive
EnemyNewTurn ==
    /\ pc = "player_minions"
    /\ idx > Len(iter)
    /\ LET w == new_turn(World, EnemyId)
       IN  /\ Commit(w)
           /\ trace' = Append(trace, [step |-> "enemy_new_turn"])
           /\ IF ~hero_is_alive(w.enemy)
              THEN /\ pc' = "idle"
                   /\ ret' = [raised |-> NoRaise, value |-> <<>>]
              ELSE /\ pc' = "enemy_cards"
                   /\ ret' = ret
    /\ iter' = <<>>
    /\ idx' = 0
    /\ UNCHANGED <<played, op, turn, autosave>>

\* one pass of the while-loop in which the enemy plays its cards; when the
\* loop ends the for-loop over the enemy's minions starts
\* a card loop after which the sweep runs over the enemy roster as it was
\* when end_turn was called
EnemyCardLoop_sweeps_old_roster ==
    /\ pc = "enemy_cards"
    /\ \E r \in {EnemyLoopPass(World)} :
           /\ Commit(r.w)
           /\ played' = IF r.card = 0 THEN played
                        ELSE Append(played, cards[r.card].type)
           /\ trace' = IF r.card = 0 THEN trace
                       ELSE Append(trace,
                                [step |-> "enemy_card", card |-> r.card,
                                 slots |-> Len(active_enemy_minions)])
           /\ IF r.playing_cards
              THEN /\ pc' = "enemy_cards"
                   /\ UNCHANGED <<iter, idx>>
              ELSE /\ pc' = "enemy_minions"
                   /\ iter' = op.before.active_enemy_minions
                   /\ idx' = 1
    /\ UNCHANGED <<op, ret, turn, autosave>>

EnemyCardLoop ==
    /\ pc = "enemy_cards"
    /\ \E r \in {EnemyLoopPass(World)} :
           /\ Commit(r.w)
           /\ played' = IF r.card = 0 THEN played
                        ELSE Append(played, cards[r.card].type)
           /\ trace' = IF r.card = 0 THEN trace
                       ELSE Append(trace,
                                [step |-> "enemy_card", card |-> r.card,
                                 slots |-> Len(active_enemy_minions)])
           /\ IF r.playing_cards
              THEN /\ pc' = "enemy_cards"
                   /\ UNCHANGED <<iter, idx>>
              ELSE /\ pc' = "enemy_minions"
                   /\ iter' = r.w.active_enemy_minions
                   /\ idx' = 1
    /\ UNCHANGED <<op, ret, turn, autosave>>

\* an enemy sweep that hands its minions the player's view of the board
EnemyMinionActs_player_view ==
    /\ pc = "enemy_minions"
    /\ idx <= Len(iter)
    /\ LET minion == iter[idx]
           target == choose_target(World, minion, PlayerId, EnemyId,
                                   active_player_minions,
                                   active_enemy_minions)
       IN  /\ Commit(use_effect(World, minion, target))
           /\ trace' = Append(trace, [step |-> "enemy_minion",
                                      minion |-> minion, target |-> target])
    /\ idx' = idx + 1
    /\ UNCHANGED <<pc, iter, played, op, ret, turn, autosave>>

\* one pass of the for-loop over the enemy's minions
EnemyMinionActs ==
    /\ pc = "enemy_minions"
    /\ idx <= Len(iter)
    /\ LET minion == iter[idx]
           target == choose_target(World, minion, EnemyId, PlayerId,
                                   active_enemy_minions,
                                   active_player_minions)
       IN  /\ Commit(use_effect(World, minion, target))
           /\ trace' = Append(trace, [step |-> "enemy_minion",
                                      minion |-> minion, target |-> target])
    /\ idx' = idx + 1
    /\ UNCHANGED <<pc, iter, played, op, ret, turn, autosave>>

\* self._player.new_turn() and the return of _played_cards
PlayerNewTurn ==
    /\ pc = "enemy_minions"
    /\ idx > Len(iter)
    /\ Commit(new_turn(World, PlayerId))
    /\ trace' = Append(trace, [step |-> "player_new_turn"])
    /\ pc' = "idle"
    /\ ret' = [raised |-> NoRaise, value |-> played]
    /\ iter' = <<>>
    /\ idx' = 0
    /\ UNCHANGED <<played, op, turn, autosave>>

Next ==
    \/ PlayCard
    \/ DiscardCard
    \/ EndTurnCall
    \/ PlayerMinionActs
    \/ EnemyNewTurn
    \/ EnemyCardLoop
    \/ EnemyMinionActs
    \/ PlayerNewTurn

Spec == Init /\ [][Next]_vars

---------------------------------------------------------------------------
(* The enemy's card loop on its own: end_turn stands at the while-loop,   *)
(* right after enemy.new_turn(), with any hand of up to MaxLoopHand cards  *)
(* and any energy up to MaxLoopEnergy.                                     *)

LoopHands ==
    UNION {[1..k -> {S, H, F(0), M}] : k \in 0..MaxLoopHand}

InitEnemyLoop ==
    \E hand \in LoopHands, energy \in 0..MaxLoopEnergy :
        LET w == load_game(
                     Game(HeroFields(9, 1, 1, <<S>>, <<H>>),
                          <<>>,
                          HeroFields(6, 0, energy, <<S, W>>, hand),
                          <<MinionFields(W, 1, 0)>>))
        IN  /\ cards = w.cards
            /\ player = w.player
            /\ enemy = w.enemy
            /\ active_player_minions = w.active_player_minions
            /\ active_enemy_minions = w.active_enemy_minions
            /\ pc = "enemy_cards"
            /\ iter = <<>>
            /\ idx = 0
            /\ played = <<>>
            /\ op = [name |-> "end_turn", before |-> w]
            /\ ret = [raised |-> NoRaise, value |-> Pending]
            /\ trace = <<[step |-> "enemy_new_turn"]>>
            /\ turn = 1
            /\ autosave = NoSave

NextEnemyLoop ==
    \/ EnemyCardLoop
    \/ EnemyMinionActs
    \/ PlayerNewTurn

SpecEnemyLoop == InitEnemyLoop /\ [][NextEnemyLoop]_vars

\* end_turn is straight-line code: once in the loop, its passes keep coming
FairEnemyLoop == SpecEnemyLoop /\ WF_vars(EnemyCardLoop)

---------------------------------------------------------------------------
(* What the properties below observe *)

WorldNext == [cards |-> cards', player |-> player', enemy |-> enemy',
              active_player_minions |-> active_player_minions',
              active_enemy_minions |-> active_enemy_minions']

\* every Entity of a world: the heroes and the minion objects
EntityRefs(w) ==
    {PlayerId, EnemyId} \cup {i \in DOMAIN w.cards : w.cards[i].is_permanent}

Stats(w, ref) == <<GetEntity(w, ref).health, GetEntity(w, ref).shield>>

\* a roster after `card` went into a slot, given the roster before
SlotRule(old, new, card) ==
    IF Len(old) = 5
    THEN /\ Len(new) = 5
         /\ \A k \in 1..4 : new[k] = old[k + 1]
         /\ new[5] = card
    ELSE new = old \o <<card>>

Last(s) == s[Len(s)]

\* the step is the enemy playing a card in its card loop
EnemyPlayStep == pc = "enemy_cards" /\ Len(trace') = Len(trace) + 1

---------------------------------------------------------------------------
(* HearthModel.play_card *)

\* C2: play_card returns false exactly when the card costs more than the
\* player's energy, and then the whole game state is as it was before.
C2_PlayCardFails ==
    op.name = "play_card" =>
        /\ (ret.value = FALSE)
              <=> (op.before.cards[op.card].cost > op.before.player.energy)
        /\ (ret.value = FALSE) => World = op.before

C2_Witness ==
    /\ op.name = "play_card"
    /\ ret.value = FALSE
    /\ op.before.player.energy > 0
    /\ op.card \in SeqRange(player.hand)

\* C3: a play_card the player can pay for, of a non-permanent card, returns
\* true, takes exactly the cost from the player's energy, removes exactly
\* that card from the hand (the rest in order), applies the effect (DAMAGE,
\* then HEALTH, then SHIELD) to the target and changes nothing else: not the
\* player's deck, not the enemy's hand, deck or energy, and not the health
\* or shield of any other entity.
C3_PlayCardEffect ==
    (/\ op.name = "play_card"
     /\ op.before.cards[op.card].cost <= op.before.player.energy
     /\ ~op.before.cards[op.card].is_permanent)
    => LET b == op.before
           c == op.card
           t == op.target
           e == b.cards[c].effect
           h0 == Stats(b, t)[1]
           s0 == Stats(b, t)[2]
           d == IF DAMAGE \in DOMAIN e THEN e[DAMAGE] ELSE 0
           h1 == Max(0, h0 - Max(0, d - s0))
           s1 == Max(0, s0 - d)
           h2 == h1 + (IF HEALTH \in DOMAIN e THEN e[HEALTH] ELSE 0)
           s2 == s1 + (IF SHIELD \in DOMAIN e THEN e[SHIELD] ELSE 0)
       IN  /\ ret.value = TRUE
           /\ ret.raised = NoRaise
           /\ player.energy = b.player.energy - b.cards[c].cost
           /\ player.energy_capacity = b.player.energy_capacity
           /\ player.hand = SelectSeq(b.player.hand, LAMBDA x : x # c)
           /\ Len(player.hand) = Len(b.player.hand) - 1
           /\ player.deck = b.player.deck
           /\ enemy.hand = b.enemy.hand
           /\ enemy.deck = b.enemy.deck
           /\ enemy.energy = b.enemy.energy
           /\ enemy.energy_capacity = b.enemy.energy_capacity
           /\ Stats(World, t) = <<h2, s2>>
           /\ \A r \in EntityRefs(b) \ {t} : Stats(World, r) = Stats(b, r)

\* a Fireball played on a shielded minion that survives it
C3_Witness ==
    /\ op.name = "play_card"
    /\ ret.value = TRUE
    /\ cards[op.card].type = "Fireball"
    /\ op.target \notin {PlayerId, EnemyId}
    /\ op.before.cards[op.target].shield > 0
    /\ cards[op.target].shield = 0
    /\ cards[op.target].health < op.before.cards[op.target].health
    /\ Len(player.hand) > 0

\* C4: putting a minion into a roster of 5 (the player's play_card of a
\* permanent card, or the enemy playing one in end_turn) removes the minion
\* at index 0, keeps the other four in order at indices 0..3 and puts the
\* new one at index 4; with fewer than 5 it is appended and nothing is
\* removed; the target is ignored: no health or shield changes.
C4_SlotInsertion ==
    [][/\ (/\ pc = "idle"
           /\ op'.name = "play_card"
           /\ ret'.value = TRUE
           /\ cards[op'.card].is_permanent)
          => /\ SlotRule(active_player_minions, active_player_minions',
                         op'.card)
             /\ \A r \in EntityRefs(World) :
                    Stats(WorldNext, r) = Stats(World, r)
       /\ (EnemyPlayStep /\ cards[Last(trace').card].is_permanent)
          => /\ SlotRule(active_enemy_minions, active_enemy_minions',
                         Last(trace').card)
             /\ \A r \in EntityRefs(World) :
                    Stats(WorldNext, r) = Stats(World, r)
      ]_vars

\* the enemy has played a minion into a full roster in the last end_turn
EnemyFilledFullRoster ==
    \E k \in 1..Len(trace) :
        /\ trace[k].step = "enemy_card"
        /\ cards[trace[k].card].is_permanent
        /\ trace[k].slots = 5

\* the player has just played a minion into a full roster, with a minion
\* as the target that is ignored, after the enemy did the same
C4_Witness ==
    /\ op.name = "play_card"
    /\ ret.value = TRUE
    /\ cards[op.card].is_permanent
    /\ Len(op.before.active_player_minions) = 5
    /\ active_player_minions[5] = op.card
    /\ op.target \notin {PlayerId, EnemyId}
    /\ EnemyFilledFullRoster

\* C5: in every state reached by play_card, discard_card and end_turn from
\* rosters of at most 5 minions, both rosters hold at most 5 minions.
C5_RosterBound ==
    /\ Len(active_player_minions) <= 5
    /\ Len(active_enemy_minions) <= 5

\* both rosters are full after a minion went into the full enemy roster
C5_Witness ==
    /\ EnemyFilledFullRoster
    /\ pc = "enemy_minions"
    /\ Len(active_enemy_minions) = 5
    /\ Len(active_player_minions) = 5

---------------------------------------------------------------------------
(* HearthModel.end_turn *)

\* the trace entries of one kind, in order
StepsOf(kind) == SelectSeq(trace, LAMBDA e : e.step = kind)

MinionsOf(kind) == [i \in 1..Len(StepsOf(kind)) |-> StepsOf(kind)[i].minion]

\* the type names of the cards the enemy played, in order
PlayedTypes ==
    [i \in 1..Len(StepsOf("enemy_card")) |->
        cards[StepsOf("enemy_card")[i].card].type]

PhaseOf(step) ==
    CASE step = "player_minion" -> 1
      [] step = "enemy_new_turn" -> 2
      [] step = "enemy_card" -> 3
      [] step = "enemy_minion" -> 4
      [] step = "player_new_turn" -> 5

\* end_turn has returned
Returned == pc = "idle" /\ op.name = "end_turn"

\* end_turn has returned from its last line
ReturnedAtEnd == Returned /\ Last(trace).step = "player_new_turn"

\* end_turn has returned right after the enemy's refresh
ReturnedEarly == Returned /\ Last(trace).step = "enemy_new_turn"

\* C6: with the enemy alive after its refresh, end_turn runs (1) every
\* player minion's effect, left to right, (2) enemy.new_turn(), (3) the
\* enemy's card loop, (4) every enemy minion's effect, left to right,
\* (5) player.new_turn(), and returns the type names of the cards the enemy
\* played, in order; each minion chooses its target in the state the
\* effects before it have left.
C6_EndTurnOrder ==
    /\ [](/\ \A i, j \in 1..Len(trace) :
                i < j => PhaseOf(trace[i].step) <= PhaseOf(trace[j].step)
          /\ Len(StepsOf("enemy_new_turn")) <= 1
          /\ Len(StepsOf("player_new_turn")) <= 1
          /\ ReturnedAtEnd =>
                /\ MinionsOf("player_minion")
                       = op.before.active_player_minions
                /\ Len(StepsOf("enemy_new_turn")) = 1
                /\ MinionsOf("enemy_minion") = active_enemy_minions
                /\ ret.value = PlayedTypes)
    /\ [][/\ (pc = "player_minions" /\ pc' # "player_minions"
                 /\ hero_is_alive(enemy'))
             => pc' = "enemy_cards"
          /\ (pc = "player_minions" /\ pc' = "player_minions")
             => Last(trace').target
                    = choose_target(World, Last(trace').minion,
                                    PlayerId, EnemyId,
                                    active_player_minions,
                                    active_enemy_minions)
          /\ (pc = "enemy_minions" /\ pc' = "enemy_minions")
             => Last(trace').target
                    = choose_target(World, Last(trace').minion,
                                    EnemyId, PlayerId,
                                    active_enemy_minions,
                                    active_player_minions)
         ]_vars

\* a full end_turn in which minions of both sides acted and the enemy
\* played more than one card
C6_Witness ==
    /\ ReturnedAtEnd
    /\ Len(StepsOf("player_minion")) >= 2
    /\ Len(StepsOf("enemy_minion")) >= 2
    /\ Len(ret.value) >= 2

\* C7: if the enemy hero is not alive (health 0 or deck empty) right after
\* enemy.new_turn(), end_turn returns an empty list at once: no enemy card
\* is played, no enemy minion acts and player.new_turn() is not run, so the
\* player's hand, deck, energy, capacity and Fireball counters are as the
\* player-minion sweep left them.
C7_EnemyDeadReturnsEarly ==
    /\ [][(pc = "player_minions" /\ idx > Len(iter)
              /\ ~hero_is_alive(enemy'))
          => /\ pc' = "idle"
             /\ ret'.value = <<>>
             /\ player' = player
             /\ \A c \in SeqRange(player.hand) : cards'[c] = cards[c]
             /\ active_player_minions' = active_player_minions
             /\ active_enemy_minions' = active_enemy_minions
         ]_vars
    /\ [](ReturnedEarly =>
             /\ ~hero_is_alive(enemy)
             /\ ret.value = <<>>
             /\ StepsOf("enemy_card") = <<>>
             /\ StepsOf("enemy_minion") = <<>>
             /\ StepsOf("player_new_turn") = <<>>
             /\ player.hand = op.before.player.hand
             /\ player.deck = op.before.player.deck
             /\ player.energy = op.before.player.energy
             /\ player.energy_capacity = op.before.player.energy_capacity
             /\ \A c \in SeqRange(player.hand) :
                    cards[c] = op.before.cards[c])

\* the enemy's deck ran out at the refresh while it has health, affordable
\* cards in hand and a minion, and the player holds a Fireball
C7_Witness ==
    /\ ReturnedEarly
    /\ enemy.health > 0
    /\ enemy.deck = <<>>
    /\ \E c \in SeqRange(enemy.hand) : cards[c].cost <= enemy.energy
    /\ Len(active_enemy_minions) > 0
    /\ \E c \in SeqRange(player.hand) : cards[c].type = "Fireball"

\* C8: each card the enemy plays in its card loop is the first card of the
\* hand, in the hand's current order, that costs no more than the enemy's
\* current energy (the scan restarts at index 0 after each play); it leaves
\* the hand, the energy drops by exactly its cost, and the list returned is
\* the type names of the cards played, in play order.
C8_EnemyPlaysFirstAffordable ==
    /\ [][EnemyPlayStep =>
             LET c == Last(trace').card
             IN  \E i \in 1..Len(enemy.hand) :
                    /\ enemy.hand[i] = c
                    /\ cards[c].cost <= enemy.energy
                    /\ \A j \in 1..(i - 1) :
                           cards[enemy.hand[j]].cost > enemy.energy
                    /\ enemy'.hand = SubSeq(enemy.hand, 1, i - 1)
                                       \o SubSeq(enemy.hand, i + 1,
                                                 Len(enemy.hand))
                    /\ enemy'.energy = enemy.energy - cards[c].cost
                    /\ played' = Append(played, cards[c].type)
         ]_vars
    /\ [](ReturnedAtEnd => ret.value = PlayedTypes /\ ret.value = played)

\* the enemy skipped a card it could not pay for, played a later one, and
\* then played the skipped first card's successor from index 0 again
C8_Witness ==
    /\ ReturnedAtEnd
    /\ Len(ret.value) >= 2
    /\ \E c \in SeqRange(enemy.hand) :
          /\ c < StepsOf("enemy_card")[1].card
          /\ c \in SeqRange(op.before.enemy.hand)
          /\ StepsOf("enemy_card")[1].card \in SeqRange(op.before.enemy.hand)

\* C9: the enemy's card loop terminates, and only when nothing is left to
\* play: at its exit every card in the enemy's hand costs more than the
\* enemy's remaining energy.  Every pass that does not end the loop takes a
\* card out of the hand.
C9_EnemyLoopExit ==
    /\ []((pc = "enemy_minions" \/ ReturnedAtEnd) =>
             \A c \in SeqRange(enemy.hand) : cards[c].cost > enemy.energy)
    /\ [][pc = "enemy_cards" =>
             \/ pc' = "enemy_minions"
             \/ Len(enemy'.hand) < Len(enemy.hand)]_vars
    /\ (pc = "enemy_cards") ~> (pc = "enemy_minions")

\* the loop ended by a pass whose play was the last card scanned, with
\* cards left in the hand
C9_Witness ==
    /\ pc = "enemy_minions"
    /\ idx = 1
    /\ Len(enemy.hand) > 0
    /\ Len(played) > 0
    /\ Last(trace).step = "enemy_card"
    /\ \A j \in 1..Len(enemy.hand) : enemy.hand[j] < Last(trace).card

\* C10: if after enemy.new_turn() every card of the enemy's hand costs more
\* than the enemy's energy, the enemy plays no card: the loop leaves the
\* enemy's hand and energy and both rosters as they are and end_turn
\* returns an empty list.
C10_NothingAffordable ==
    /\ [][(/\ pc = "enemy_cards"
           /\ played = <<>>
           /\ \A c \in SeqRange(enemy.hand) : cards[c].cost > enemy.energy)
          => /\ pc' = "enemy_minions"
             /\ played' = <<>>
             /\ enemy' = enemy
             /\ cards' = cards
             /\ active_player_minions' = active_player_minions
             /\ active_enemy_minions' = active_enemy_minions
         ]_vars
    /\ []((ReturnedAtEnd /\ StepsOf("enemy_card") = <<>>)
             => ret.value = <<>>)

\* a live enemy with a hand of 5 cards, none of which it could pay for
C10_Witness ==
    /\ ReturnedAtEnd
    /\ ret.value = <<>>
    /\ StepsOf("enemy_card") = <<>>
    /\ Len(enemy.hand) = 5
    /\ hero_is_alive(enemy)

---------------------------------------------------------------------------
(* Entity on its own: one Entity object, any health and shield, and the   *)
(* three operations applied to it with any amount.                         *)

InitEntity ==
    /\ \E health \in 0..MaxEntityHealth, shield \in 0..MaxEntityShield :
          cards = <<Entity(health, shield)>>
    /\ player = Hero(0, 0, 0, <<>>, <<>>)
    /\ enemy = Hero(0, 0, 0, <<>>, <<>>)
    /\ active_player_minions = <<>>
    /\ active_enemy_minions = <<>>
    /\ pc = "entity"
    /\ iter = <<>>
    /\ idx = 0
    /\ played = <<>>
    /\ op = [name |-> "__init__"]
    /\ ret = [raised |-> NoRaise, value |-> "None"]
    /\ trace = <<>>
    /\ turn = 0
    /\ autosave = NoSave

EntityFrame ==
    /\ ret' = [raised |-> NoRaise, value |-> "None"]
    /\ UNCHANGED <<player, enemy, active_player_minions,
                   active_enemy_minions, pc, iter, idx, played, trace, turn,
                   autosave>>

EntityApplyDamage ==
    /\ pc = "entity"
    /\ \E damage \in 0..MaxAmount :
          /\ cards' = [cards EXCEPT ![1] = apply_damage(@, damage)]
          /\ op' = [name |-> "apply_damage", arg |-> damage,
                    before |-> cards[1]]
    /\ EntityFrame

EntityApplyHealth ==
    /\ pc = "entity"
    /\ \E health \in 0..MaxAmount :
          /\ cards[1].health + health <= MaxEntityHealth
          /\ cards' = [cards EXCEPT ![1] = apply_health(@, health)]
          /\ op' = [name |-> "apply_health", arg |-> health,
                    before |-> cards[1]]
    /\ EntityFrame

EntityApplyShield ==
    /\ pc = "entity"
    /\ \E shield \in 0..MaxAmount :
          /\ cards[1].shield + shield <= MaxEntityShield
          /\ cards' = [cards EXCEPT ![1] = apply_shield(@, shield)]
          /\ op' = [name |-> "apply_shield", arg |-> shield,
                    before |-> cards[1]]
    /\ EntityFrame

NextEntity ==
    \/ EntityApplyDamage
    \/ EntityApplyHealth
    \/ EntityApplyShield

SpecEntity == InitEntity /\ [][NextEntity]_vars

---------------------------------------------------------------------------
(* Entity.apply_damage *)

\* C1: for health h >= 0, shield s >= 0 and damage d >= 0, apply_damage(d)
\* leaves health = max(0, h - max(0, d - s)) and shield = max(0, s - d):
\* the shield absorbs first and health is never negative.
C1_ApplyDamage ==
    op.name = "apply_damage" =>
        LET h == op.before.health
            s == op.before.shield
            d == op.arg
        IN  /\ cards[1].health = Max(0, h - Max(0, d - s))
            /\ cards[1].shield = Max(0, s - d)
            /\ cards[1].health >= 0

\* damage that goes through the shield and exceeds the health left
C1_Witness ==
    /\ op.name = "apply_damage"
    /\ op.before.shield > 0
    /\ op.before.health > 0
    /\ op.arg > op.before.shield + op.before.health
    /\ cards[1] = Entity(0, 0)

---------------------------------------------------------------------------
(* The enemy's cards and their targets *)

\* health and shield of an entity after an effect resolved on it
Resolved(e, effect) ==
    LET e1 == IF DAMAGE \in DOMAIN effect
              THEN LET through == Max(0, effect[DAMAGE] - e.shield)
                   IN  [health |-> Max(0, e.health - through),
                        shield |-> Max(0, e.shield - effect[DAMAGE])]
              ELSE [health |-> e.health, shield |-> e.shield]
        e2 == IF HEALTH \in DOMAIN effect
              THEN [e1 EXCEPT !.health = @ + effect[HEALTH]] ELSE e1
    IN  IF SHIELD \in DOMAIN effect
        THEN [e2 EXCEPT !.shield = @ + effect[SHIELD]] ELSE e2

StatsRec(w, ref) == [health |-> GetEntity(w, ref).health,
                     shield |-> GetEntity(w, ref).shield]

\* C11: a non-permanent card the enemy plays during end_turn is resolved
\* against the player hero if its effect contains DAMAGE and against the
\* enemy hero otherwise; it never changes a minion of either roster.
C11_EnemyCardTargets ==
    [][(EnemyPlayStep /\ ~cards[Last(trace').card].is_permanent) =>
          LET c == Last(trace').card
              effect == cards[c].effect
              aimed == IF DAMAGE \in DOMAIN effect THEN PlayerId ELSE EnemyId
              other == IF aimed = PlayerId THEN EnemyId ELSE PlayerId
          IN  /\ StatsRec(WorldNext, aimed)
                     = Resolved(StatsRec(World, aimed), effect)
              /\ StatsRec(WorldNext, other) = StatsRec(World, other)
              /\ \A m \in EntityRefs(World) \ {PlayerId, EnemyId} :
                     StatsRec(WorldNext, m) = StatsRec(World, m)
              /\ active_player_minions' = active_player_minions
              /\ active_enemy_minions' = active_enemy_minions
      ]_vars

\* the enemy played a Fireball that went through to the player hero's
\* health while minions stood in a roster
C11_Witness ==
    /\ pc \in {"enemy_cards", "enemy_minions"}
    /\ Last(trace).step = "enemy_card"
    /\ cards[Last(trace).card].type = "Fireball"
    /\ player.health < op.before.player.health
    /\ Len(active_enemy_minions) + Len(active_player_minions) > 0

---------------------------------------------------------------------------
(* choose_target on its own: any two rosters of up to MaxTargetRoster      *)
(* minions each and MaxTargetRoster + 1 together, of one class, with any   *)
(* health up to MaxTargetHealth, any health of the two heroes; a minion of *)
(* the player's roster chooses its target the way end_turn asks it to.     *)

TargetRosters(symbol) ==
    UNION {[1..k -> {MinionFields(symbol, h, 0) : h \in 0..MaxTargetHealth}]
              : k \in 0..MaxTargetRoster}

InitTarget ==
    \E symbol \in {M, W, R},
       ally_health \in 0..MaxTargetHealth,
       enemy_health \in {1, MaxTargetHealth} :
      \E pm \in TargetRosters(symbol) :
      \E em \in {r \in TargetRosters(symbol) :
                    Len(r) + Len(pm) <= MaxTargetRoster + 1} :
        LET w == load_game(
                     Game(HeroFields(ally_health, 0, 1, <<S>>, <<>>), pm,
                          HeroFields(enemy_health, 0, 1, <<S>>, <<>>), em))
        IN  /\ cards = w.cards
            /\ player = w.player
            /\ enemy = w.enemy
            /\ active_player_minions = w.active_player_minions
            /\ active_enemy_minions = w.active_enemy_minions
            /\ pc = "target"
            /\ iter = <<>>
            /\ idx = 0
            /\ played = <<>>
            /\ op = [name |-> "__init__"]
            /\ ret = [raised |-> NoRaise, value |-> "None"]
            /\ trace = <<>>
            /\ turn = 0
            /\ autosave = NoSave

\* _minion.choose_target(player, enemy, player minions, enemy minions)
ChooseTarget ==
    /\ pc = "target"
    /\ \E i \in 1..Len(active_player_minions) :
          LET self == active_player_minions[i]
          IN  /\ ret' = [raised |-> NoRaise,
                         value |-> choose_target(World, self,
                                       PlayerId, EnemyId,
                                       active_player_minions,
                                       active_enemy_minions)]
              /\ op' = [name |-> "choose_target", self |-> self]
    /\ UNCHANGED <<cards, player, enemy, active_player_minions,
                   active_enemy_minions, pc, iter, idx, played, trace, turn,
                   autosave>>

NextTarget == ChooseTarget

SpecTarget == InitTarget /\ [][NextTarget]_vars

\* the health of the minions of a roster, slot by slot
HealthOf(roster) == [i \in 1..Len(roster) |-> cards[roster[i]].health]

\* the leftmost slot of a non-empty roster holding the value v
LeftmostSlot(healths, v) ==
    CHOOSE i \in 1..Len(healths) :
        healths[i] = v /\ \A j \in 1..(i - 1) : healths[j] # v

SeqMin(s) == CHOOSE v \in SeqRange(s) : \A x \in SeqRange(s) : v <= x
SeqMax(s) == CHOOSE v \in SeqRange(s) : \A x \in SeqRange(s) : v >= x

ChoiceOf(type) == op.name = "choose_target" /\ cards[op.self].type = type

\* C12: Wyrm.choose_target returns the ally hero unless some ally minion has
\* health strictly lower than the hero's, and then the leftmost ally minion
\* of minimum health; the hero wins ties with minions, the leftmost minion
\* wins ties between minions, and whatever the enemy hero and the enemy
\* minions are, the result is this function of the ally side alone.
C12_WyrmTarget ==
    ChoiceOf("Wyrm") =>
        LET healths == HealthOf(active_player_minions)
        IN  IF \E i \in 1..Len(healths) : healths[i] < player.health
            THEN ret.value = active_player_minions[
                                 LeftmostSlot(healths, SeqMin(healths))]
            ELSE ret.value = PlayerId

\* the second and third ally minions tie for the lowest health, below the
\* hero's and the first minion's, and the second is chosen, while an enemy
\* minion has a lower health still
C12_Witness ==
    /\ ChoiceOf("Wyrm")
    /\ Len(active_player_minions) >= 3
    /\ cards[active_player_minions[2]].health
           = cards[active_player_minions[3]].health
    /\ cards[active_player_minions[2]].health
           < cards[active_player_minions[1]].health
    /\ cards[active_player_minions[2]].health < player.health
    /\ ret.value = active_player_minions[2]
    /\ \E m \in SeqRange(active_enemy_minions) :
           cards[m].health < cards[active_player_minions[2]].health

\* C13: Raptor.choose_target returns the leftmost enemy minion of maximum
\* health when enemy_minions is non-empty and the enemy hero exactly when
\* it is empty; it never returns the ally hero or an ally minion.
C13_RaptorTarget ==
    ChoiceOf("Raptor") =>
        LET healths == HealthOf(active_enemy_minions)
        IN  /\ Len(healths) > 0 =>
                   ret.value = active_enemy_minions[
                                   LeftmostSlot(healths, SeqMax(healths))]
            /\ (ret.value = EnemyId) <=> (Len(healths) = 0)
            /\ ret.value # PlayerId
            /\ ret.value \notin SeqRange(active_player_minions)

\* the second and third enemy minions tie for the highest health, above
\* the first one's, and the second is chosen
C13_Witness ==
    /\ ChoiceOf("Raptor")
    /\ Len(active_enemy_minions) >= 3
    /\ cards[active_enemy_minions[2]].health
           = cards[active_enemy_minions[3]].health
    /\ cards[active_enemy_minions[2]].health
           > cards[active_enemy_minions[1]].health
    /\ ret.value = active_enemy_minions[2]

---------------------------------------------------------------------------
(* The minion sweeps of end_turn *)

\* no entity of the set loses health or shield in the step
NotReduced(refs) ==
    \A r \in refs :
        /\ GetEntity(WorldNext, r).health >= GetEntity(World, r).health
        /\ GetEntity(WorldNext, r).shield >= GetEntity(World, r).shield

PlayerSide == {PlayerId} \cup SeqRange(active_player_minions)
EnemySide == {EnemyId} \cup SeqRange(active_enemy_minions)

\* C14: in end_turn a player minion chooses its target given (player hero,
\* enemy hero, player roster, enemy roster) and an enemy minion given (enemy
\* hero, player hero, enemy roster, player roster); so the enemy sweep never
\* reduces the health or shield of the enemy hero or an enemy minion, and
\* the player sweep never those of the player hero or a player minion.
C14_OwnSideTargeting ==
    [][/\ (pc = "player_minions" /\ pc' = "player_minions") =>
             /\ Last(trace').target
                    = choose_target(World, Last(trace').minion,
                                    PlayerId, EnemyId,
                                    active_player_minions,
                                    active_enemy_minions)
             /\ NotReduced(PlayerSide \cup SeqRange(iter))
       /\ (pc = "enemy_minions" /\ pc' = "enemy_minions") =>
             /\ Last(trace').target
                    = choose_target(World, Last(trace').minion,
                                    EnemyId, PlayerId,
                                    active_enemy_minions,
                                    active_player_minions)
             /\ NotReduced(EnemySide \cup SeqRange(iter))
      ]_vars

\* in one end_turn a player Raptor struck an enemy minion and an enemy
\* Raptor struck a player minion
C14_Witness ==
    /\ pc = "enemy_minions"
    /\ \E i \in 1..Len(trace) :
          /\ trace[i].step = "player_minion"
          /\ cards[trace[i].minion].type = "Raptor"
          /\ trace[i].target \in SeqRange(op.before.active_enemy_minions)
    /\ Last(trace).step = "enemy_minion"
    /\ cards[Last(trace).minion].type = "Raptor"
    /\ Last(trace).target \in SeqRange(op.before.active_player_minions)
    /\ cards[Last(trace).target].health
           < op.before.cards[Last(trace).target].health

---------------------------------------------------------------------------
(* HearthModel._use_effect and _remove_defeated_minions *)

\* the members of `old` that are still in `new` stand in the same order
OrderKept(old, new) ==
    SelectSeq(old, LAMBDA m : m \in SeqRange(new))
        = SelectSeq(new, LAMBDA m : m \in SeqRange(old))

AllAlive(w) ==
    \A m \in SeqRange(w.active_player_minions)
               \cup SeqRange(w.active_enemy_minions) : w.cards[m].health > 0

\* the step is a minion of either sweep resolving its effect
MinionStep == /\ pc \in {"player_minions", "enemy_minions"}
              /\ pc' = pc

\* C15: an effect applies to its one target DAMAGE, then HEALTH, then
\* SHIELD, each if present, and minions with health 0 are pruned from both
\* rosters around it; so, from rosters of live minions, every minion in a
\* roster has health > 0 after every play_card, discard_card and end_turn
\* (and between the steps of end_turn), and the minions that stay in a
\* roster keep their relative order.
C15_EffectResolution ==
    /\ [](AllAlive(World))
    /\ []((op.name = "play_card" /\ ret.value = TRUE
              /\ ~op.before.cards[op.card].is_permanent) =>
             StatsRec(World, op.target)
                 = Resolved(StatsRec(op.before, op.target),
                            op.before.cards[op.card].effect))
    /\ [][/\ OrderKept(active_player_minions, active_player_minions')
          /\ OrderKept(active_enemy_minions, active_enemy_minions')
          /\ MinionStep =>
                LET minion == Last(trace').minion
                    target == Last(trace').target
                    effect == IF cards[minion].type = "Raptor"
                              THEN (DAMAGE :> cards[minion].health)
                              ELSE cards[minion].effect
                IN  /\ StatsRec(WorldNext, target)
                           = Resolved(StatsRec(World, target), effect)
                    /\ active_player_minions'
                           = SelectSeq(active_player_minions,
                                       LAMBDA m : cards'[m].health > 0)
                    /\ active_enemy_minions'
                           = SelectSeq(active_enemy_minions,
                                       LAMBDA m : cards'[m].health > 0)
         ]_vars

\* an operation took a minion out of the middle of a roster, by bringing
\* its health to 0, and its neighbours on both sides stayed
KilledInMiddle(old, new) ==
    /\ Len(old) >= 3
    /\ \E k \in 2..(Len(old) - 1) :
          /\ old[k] \notin SeqRange(new)
          /\ cards[old[k]].health = 0
          /\ old[k - 1] \in SeqRange(new)
          /\ old[k + 1] \in SeqRange(new)

C15_Witness ==
    /\ pc = "idle"
    /\ op.name \in {"play_card", "end_turn"}
    /\ \/ KilledInMiddle(op.before.active_player_minions,
                          active_player_minions)
       \/ KilledInMiddle(op.before.active_enemy_minions,
                          active_enemy_minions)

---------------------------------------------------------------------------
(* Games loaded from a snapshot whose rosters hold a minion with health 0  *)
(* (a triple such as W,0,0): _generate_minions builds it as it stands and  *)
(* HearthModel.__init__ does not prune.                                    *)

DeadMinionGames == {
    \* a Wyrm ahead of a dead Minion; a dead Raptor leading the enemy roster
    Game(HeroFields(5, 0, 1, <<S, H>>, <<S>>),
         <<MinionFields(W, 1, 0), MinionFields(M, 0, 0)>>,
         HeroFields(5, 0, 1, <<S, H, S, S>>, <<S, H, S>>),
         <<MinionFields(R, 0, 0), MinionFields(W, 2, 0)>>),
    \* a dead Raptor ahead of a live one; a dead Wyrm behind a live one
    Game(HeroFields(4, 0, 2, <<H, S>>, <<H>>),
         <<MinionFields(R, 0, 0), MinionFields(R, 2, 0)>>,
         HeroFields(6, 0, 1, <<S, H, S, H>>, <<M, S, H>>),
         <<MinionFields(W, 1, 0), MinionFields(W, 0, 0)>>)
}

InitDeadMinion ==
    \E g \in DeadMinionGames :
        LET w == load_game(g)
        IN  /\ cards = w.cards
            /\ player = w.player
            /\ enemy = w.enemy
            /\ active_player_minions = w.active_player_minions
            /\ active_enemy_minions = w.active_enemy_minions
            /\ pc = "idle"
            /\ iter = <<>>
            /\ idx = 0
            /\ played = <<>>
            /\ op = [name |-> "__init__"]
            /\ ret = [raised |-> NoRaise, value |-> "None"]
            /\ trace = <<>>
            /\ turn = 0
            /\ autosave = NoSave

SpecDeadMinion == InitDeadMinion /\ [][Next]_vars

\* C16: in every game state, one whose roster already holds a minion with
\* health 0 included, no effect resolved during end_turn applies HEALTH or
\* SHIELD to a minion whose health is 0, and no minion with health 0
\* resolves its own effect.
C16_DeadMinionsInert ==
    [][MinionStep =>
          LET minion == Last(trace').minion
              target == Last(trace').target
          IN  /\ cards[minion].health > 0
              /\ (/\ target \notin {PlayerId, EnemyId}
                  /\ \/ HEALTH \in DOMAIN cards[minion].effect
                     \/ SHIELD \in DOMAIN cards[minion].effect)
                 => cards[target].health > 0
      ]_vars

---------------------------------------------------------------------------
(* HearthModel.has_won and has_lost *)

\* a hero has health left and a card left in its deck
Standing(h) == h.health > 0 /\ Len(h.deck) > 0

\* C17: has_won() is true exactly when the player hero is alive and the
\* enemy hero is not, and has_lost() exactly when the player hero is not
\* alive, a hero being alive iff its health > 0 and its deck is non-empty.
C17_WonLost ==
    /\ has_won(World) <=> (Standing(player) /\ ~Standing(enemy))
    /\ has_lost(World) <=> ~Standing(player)

\* the game is won against an enemy hero that has health left and an empty
\* deck
C17_Witness ==
    /\ has_won(World)
    /\ ~has_lost(World)
    /\ enemy.health > 0
    /\ enemy.deck = <<>>

\* C18 as claimed: win and loss are evaluated independently of each other,
\* so a state in which neither hero is alive is both won and lost.
C18_BothDefeatedIsWonAndLost ==
    (~Standing(player) /\ ~Standing(enemy))
        => (has_won(World) /\ has_lost(World))

\* C18, amended: has_won() and has_lost() are never both true; a state in
\* which neither hero is alive is lost and not won.
C18_WonExcludesLost ==
    /\ ~(has_won(World) /\ has_lost(World))
    /\ (~Standing(player) /\ ~Standing(enemy))
          => (has_lost(World) /\ ~has_won(World))

\* neither hero is alive: the player's deck ran out and the enemy hero's
\* health is 0
C18_Witness ==
    /\ player.health > 0
    /\ player.deck = <<>>
    /\ enemy.health = 0
    /\ has_lost(World)

---------------------------------------------------------------------------
(* HearthModel.discard_card *)

\* C19: discard_card(card), for a card of the player's hand, takes exactly
\* that card out of the hand and makes it the last card of the player's
\* deck; the player's energy and capacity, every entity's health and shield,
\* both rosters and the enemy's hand and deck stay as they were, as does
\* |hand| + |deck| of the player; it succeeds whatever the player's energy.
C19_DiscardCard ==
    op.name = "discard_card" =>
        LET b == op.before
        IN  /\ \E i \in 1..Len(b.player.hand) :
                   /\ b.player.hand[i] = op.card
                   /\ player.hand = SubSeq(b.player.hand, 1, i - 1)
                                       \o SubSeq(b.player.hand, i + 1,
                                                 Len(b.player.hand))
            /\ player.deck = b.player.deck \o <<op.card>>
            /\ player.energy = b.player.energy
            /\ player.energy_capacity = b.player.energy_capacity
            /\ \A r \in EntityRefs(b) : Stats(World, r) = Stats(b, r)
            /\ cards = b.cards
            /\ active_player_minions = b.active_player_minions
            /\ active_enemy_minions = b.active_enemy_minions
            /\ enemy = b.enemy
            /\ Len(player.hand) + Len(player.deck)
                   = Len(b.player.hand) + Len(b.player.deck)
            /\ ret.raised = NoRaise

\* a card the player could not have paid for, not the first of the hand,
\* went under a deck that had cards in it
C19_Witness ==
    /\ op.name = "discard_card"
    /\ op.before.cards[op.card].cost > op.before.player.energy
    /\ op.before.player.hand[1] # op.card
    /\ Len(op.before.player.deck) > 0
    /\ Last(player.deck) = op.card

---------------------------------------------------------------------------
(* CardDeck on its own: a deck of up to MaxDeckLen cards, each one of two  *)
(* card objects, held by the player hero; draw_cards with any count from 0 *)
(* to MaxDraw and add_card.                                                *)

DeckObjects == generate_cards(<<S, H>>)

InitDeck ==
    /\ cards = DeckObjects
    /\ \E n \in 0..MaxDeckLen :
          \E deck \in [1..n -> DOMAIN DeckObjects] :
              player = Hero(1, 0, 1, deck, <<>>)
    /\ enemy = Hero(1, 0, 1, <<>>, <<>>)
    /\ active_player_minions = <<>>
    /\ active_enemy_minions = <<>>
    /\ pc = "deck"
    /\ iter = <<>>
    /\ idx = 0
    /\ played = <<>>
    /\ op = [name |-> "__init__"]
    /\ ret = [raised |-> NoRaise, value |-> "None"]
    /\ trace = <<>>
    /\ turn = 0
    /\ autosave = NoSave

DeckFrame ==
    UNCHANGED <<cards, enemy, active_player_minions, active_enemy_minions,
                pc, iter, idx, played, trace, turn, autosave>>

DeckDrawCards ==
    /\ pc = "deck"
    /\ \E num \in 0..MaxDraw :
          LET d == draw_cards(player.deck, num)
          IN  /\ player' = [player EXCEPT !.deck = d.rest]
              /\ ret' = [raised |-> NoRaise, value |-> d.drawn]
              /\ op' = [name |-> "draw_cards", arg |-> num,
                        before |-> player.deck]
    /\ DeckFrame

DeckAddCard ==
    /\ pc = "deck"
    /\ Len(player.deck) < MaxDeckLen
    /\ \E card \in DOMAIN cards :
          /\ player' = [player EXCEPT !.deck = add_card(@, card)]
          /\ op' = [name |-> "add_card", arg |-> card,
                    before |-> player.deck]
    /\ ret' = [raised |-> NoRaise, value |-> "None"]
    /\ DeckFrame

NextDeck ==
    \/ DeckDrawCards
    \/ DeckAddCard

SpecDeck == InitDeck /\ [][NextDeck]_vars

\* C20: draw_cards(k), k >= 0, on a deck of n cards returns the first
\* min(k, n) cards in their order and leaves the other max(0, n - k) in
\* theirs; the cards returned followed by the cards left are the deck as it
\* was, and asking for more than the deck holds empties it without an error.
C20_DrawCards ==
    op.name = "draw_cards" =>
        LET n == Len(op.before)
            k == op.arg
        IN  /\ ret.raised = NoRaise
            /\ Len(ret.value) = Min(k, n)
            /\ \A i \in 1..Len(ret.value) : ret.value[i] = op.before[i]
            /\ Len(player.deck) = Max(0, n - k)
            /\ \A i \in 1..Len(player.deck) :
                   player.deck[i] = op.before[Min(k, n) + i]
            /\ ret.value \o player.deck = op.before
            /\ k > n => player.deck = <<>>

\* more cards were asked for than the deck held, and it held two different
\* ones
C20_Witness ==
    /\ op.name = "draw_cards"
    /\ op.arg > Len(op.before)
    /\ Len(op.before) >= 2
    /\ op.before[1] # op.before[2]
    /\ ret.value = op.before
    /\ player.deck = <<>>

---------------------------------------------------------------------------
(* Hero on its own: the player hero with a hand of up to MaxHeroHand cards *)
(* (a snapshot may hold more than 5), a deck of up to MaxHeroDeck cards    *)
(* and any capacity up to MaxHeroCapacity; new_turn and spend_energy.      *)

\* the i-th card of the hands and the decks tried
HeroHandCard(i) == IF i % 3 = 1 THEN F(0) ELSE IF i % 3 = 2 THEN S ELSE M
HeroDeckCard(i) == IF i % 3 = 1 THEN F(2) ELSE IF i % 3 = 2 THEN H ELSE W

InitHero ==
    \E h \in 0..MaxHeroHand, n \in 0..MaxHeroDeck,
       max_energy \in 0..MaxHeroCapacity :
        LET w == load_game(
                     Game(HeroFields(3, 0, max_energy,
                                     [i \in 1..n |-> HeroDeckCard(i)],
                                     [i \in 1..h |-> HeroHandCard(i)]),
                          <<>>,
                          HeroFields(1, 0, 1, <<S>>, <<>>),
                          <<>>))
        IN  /\ cards = w.cards
            /\ player = w.player
            /\ enemy = w.enemy
            /\ active_player_minions = w.active_player_minions
            /\ active_enemy_minions = w.active_enemy_minions
            /\ pc = "hero"
            /\ iter = <<>>
            /\ idx = 0
            /\ played = <<>>
            /\ op = [name |-> "__init__"]
            /\ ret = [raised |-> NoRaise, value |-> "None"]
            /\ trace = <<>>
            /\ turn = 0
            /\ autosave = NoSave

HeroNewTurn ==
    /\ pc = "hero"
    /\ turn < MaxTurns
    /\ turn' = turn + 1
    /\ Commit(new_turn(World, PlayerId))
    /\ op' = [name |-> "new_turn", before |-> World]
    /\ ret' = [raised |-> NoRaise, value |-> "None"]
    /\ UNCHANGED <<pc, iter, idx, played, trace, autosave>>

HeroSpendEnergy ==
    /\ pc = "hero"
    /\ \E energy \in 0..MaxAmount :
          LET s == spend_energy(player, energy)
          IN  /\ player' = s.hero
              /\ ret' = [raised |-> NoRaise, value |-> s.ok]
              /\ op' = [name |-> "spend_energy", arg |-> energy,
                        before |-> World]
    /\ UNCHANGED <<cards, enemy, active_player_minions, active_enemy_minions,
                   pc, iter, idx, played, trace, turn, autosave>>

NextHero ==
    \/ HeroNewTurn
    \/ HeroSpendEnergy

SpecHero == InitHero /\ [][NextHero]_vars

\* C21: new_turn on a hero with a hand of h cards, h > 5 included, and a
\* deck of n cards moves exactly min(max(0, 5 - h), n) cards from the front
\* of the deck to the end of the hand, in draw order; with h >= 5 no card
\* leaves the deck and the hand is unchanged.
C21_NewTurnDraw ==
    op.name = "new_turn" =>
        LET hand == op.before.player.hand
            deck == op.before.player.deck
            k == Min(Max(0, 5 - Len(hand)), Len(deck))
        IN  /\ player.hand = hand \o SubSeq(deck, 1, k)
            /\ player.deck = SubSeq(deck, k + 1, Len(deck))
            /\ Len(hand) >= 5 => (player.hand = hand /\ player.deck = deck)

\* the cards a list holds
Elems(s) == {s[i] : i \in 1..Len(s)}

IsFireball(c) == c.name = FIREBALL_NAME

\* C22: in new_turn the Fireball increment happens before the draw: every
\* Fireball that was in the hand before the call has its turn counter
\* raised by exactly 1, and every Fireball drawn from the deck by the same
\* call keeps the counter it had in the deck.
C22_IncrementBeforeDraw ==
    op.name = "new_turn" =>
        LET held == Elems(op.before.player.hand)
            drawn == Elems(player.hand) \ held
        IN  /\ \A c \in held :
                   IsFireball(op.before.cards[c]) =>
                       cards[c].turns_in_hand =
                           op.before.cards[c].turns_in_hand + 1
            /\ \A c \in drawn :
                   /\ c \in Elems(op.before.player.deck)
                   /\ IsFireball(op.before.cards[c]) =>
                          cards[c].turns_in_hand =
                              op.before.cards[c].turns_in_hand

C22_Witness ==
    /\ op.name = "new_turn"
    /\ \E c \in Elems(op.before.player.hand) :
           IsFireball(op.before.cards[c])
    /\ \E c \in Elems(player.hand) \ Elems(op.before.player.hand) :
           IsFireball(cards[c])

\* the step taken is the new_turn of the hero `who`
NewTurnStep(who) ==
    /\ Len(trace') = Len(trace) + 1
    /\ Last(trace').step = (IF who = PlayerId THEN "player_new_turn"
                                              ELSE "enemy_new_turn")

FireballShape ==
    \A c \in DOMAIN cards :
        IsFireball(cards[c]) =>
            /\ cards[c].effect = (DAMAGE :> (cards[c].turns_in_hand + 3))
            /\ cards[c].symbol = Str(cards[c].turns_in_hand)

FireballCounterStep ==
    \A c \in DOMAIN cards :
        IsFireball(cards[c]) =>
            /\ IsFireball(cards'[c])
            /\ cards'[c].turns_in_hand =
                   IF \/ c \in Elems(player.hand) /\ NewTurnStep(PlayerId)
                      \/ c \in Elems(enemy.hand) /\ NewTurnStep(EnemyId)
                   THEN cards[c].turns_in_hand + 1
                   ELSE cards[c].turns_in_hand

\* C23: in every reachable state each Fireball's DAMAGE is its turn counter
\* + 3 and its symbol is the decimal turn counter; the counter grows by
\* exactly 1 per new_turn of the hero whose hand holds it and is unchanged
\* by every other step, discard_card included.
C23_FireballCounter == []FireballShape /\ [][FireballCounterStep]_vars

\* a Fireball that took turns in the player's hand and was then discarded
C23_Witness ==
    /\ op.name = "discard_card"
    /\ IsFireball(cards[op.card])
    /\ cards[op.card].turns_in_hand >= 2
    /\ cards[op.card].effect[DAMAGE] = cards[op.card].turns_in_hand + 3
    /\ Len(player.deck) > 0
    /\ Last(player.deck) = op.card

EnergyInRange(h) == 0 <= h.energy /\ h.energy <= h.energy_capacity

\* what spend_energy(cost) is to return and to leave, given the energy
SpendOutcome(energy, cost) ==
    IF cost <= energy THEN [ok |-> TRUE, energy |-> energy - cost]
                      ELSE [ok |-> FALSE, energy |-> energy]

\* the player's spend_energy, seen through the play_card that calls it
PlayerSpend ==
    op.name = "play_card" =>
        LET o == SpendOutcome(op.before.player.energy,
                              op.before.cards[op.card].cost)
        IN  /\ o.ok = ret.value
            /\ o.energy = player.energy

\* the enemy's spend_energy for the card its loop looks at: a card it can
\* pay for is paid and played, a card it cannot pay for leaves the energy
EnemySpend ==
    pc = "enemy_cards" =>
        /\ EnemyPlayStep =>
               SpendOutcome(enemy.energy, cards[Last(trace').card].cost) =
                   [ok |-> TRUE, energy |-> enemy'.energy]
        /\ ~EnemyPlayStep =>
               /\ enemy'.energy = enemy.energy
               /\ \A i \in 1..Len(enemy.hand) :
                      ~SpendOutcome(enemy.energy,
                                    cards[enemy.hand[i]].cost).ok

\* C24: for both heroes 0 <= energy <= energy_capacity in every state
\* reached by play_card, discard_card and end_turn; spend_energy(cost)
\* deducts the cost and returns true iff cost <= energy, and otherwise
\* returns false and leaves the energy unchanged.
C24_Energy ==
    /\ [](EnergyInRange(player) /\ EnergyInRange(enemy) /\ PlayerSpend)
    /\ [][EnemySpend]_vars

\* the player could not pay after spending, and the enemy spent its last
C24_Witness ==
    /\ op.name = "play_card"
    /\ ret.value = FALSE
    /\ 0 < player.energy
    /\ player.energy < player.energy_capacity
    /\ enemy.energy = 0
    /\ \E k \in 1..Len(trace) : trace[k].step = "enemy_card"

\* the capacity of the hero `who` over one step: up by 1, with the energy
\* refilled to it, in its new_turn and as it was in every other step
CapacityOver(who, h, hn) ==
    IF NewTurnStep(who)
    THEN /\ hn.energy_capacity = h.energy_capacity + 1
         /\ hn.energy = hn.energy_capacity
    ELSE hn.energy_capacity = h.energy_capacity

CapacityStep ==
    /\ CapacityOver(PlayerId, player, player')
    /\ CapacityOver(EnemyId, enemy, enemy')
    /\ NewTurnStep(EnemyId) => (pc' = "idle" <=> ~hero_is_alive(enemy'))

\* end_turn as a whole, once it has returned
CapacityOverEndTurn ==
    Returned =>
        /\ enemy.energy_capacity = op.before.enemy.energy_capacity + 1
        /\ player.energy_capacity =
               op.before.player.energy_capacity
                   + (IF ReturnedEarly THEN 0 ELSE 1)

\* C25: each new_turn raises the hero's energy capacity by exactly 1 and
\* sets the energy to the new capacity; so every end_turn raises the
\* enemy's capacity by exactly 1 and the player's by exactly 1 iff the
\* enemy is alive after its refresh; no operation lowers a capacity.
C25_Capacity == []CapacityOverEndTurn /\ [][CapacityStep]_vars

\* an end_turn that ran to its end followed by one that returned at the
\* refresh of an enemy that had spent energy
C25_Witness ==
    /\ ReturnedEarly
    /\ turn = 2
    /\ op.before.enemy.energy < op.before.enemy.energy_capacity
    /\ enemy.energy = enemy.energy_capacity
    /\ player.energy_capacity = op.before.player.energy_capacity

\* the step taken is the minion `Last(trace').minion` resolving its effect
RaptorStep == MinionStep /\ cards[Last(trace').minion].type = "Raptor"

\* C26: the damage a Raptor deals when it resolves its effect in end_turn
\* is the Raptor's health at that moment, not its health at construction:
\* its target loses that amount, shield first, and the effect the Raptor
\* holds afterwards names that amount.
C26_RaptorDamage ==
    [][RaptorStep =>
          LET raptor == Last(trace').minion
              target == Last(trace').target
              damage == cards[raptor].health
          IN  /\ StatsRec(WorldNext, target)
                     = Resolved(StatsRec(World, target), DAMAGE :> damage)
              /\ cards'[raptor].effect = (DAMAGE :> damage)
      ]_vars

\* a Raptor has just dealt its damage after a Wyrm healed it in the same
\* end_turn, and the damage went through to the target's health
C26_Witness ==
    /\ Len(trace) > 0
    /\ Last(trace).step \in {"player_minion", "enemy_minion"}
    /\ LET raptor == Last(trace).minion
           target == Last(trace).target
       IN  /\ cards[raptor].type = "Raptor"
           /\ cards[raptor].health > op.before.cards[raptor].health
           /\ cards[raptor].effect[DAMAGE] = cards[raptor].health
           /\ StatsRec(World, target).health
                  < StatsRec(op.before, target).health

---------------------------------------------------------------------------
(* Saving and loading: HearthModel.__str__ and Hearthstone.load_game *)

\* what a snapshot line says of a hero
HeroView(w, h) ==
    [health |-> h.health, shield |-> h.shield,
     energy_capacity |-> h.energy_capacity,
     deck |-> SymbolsOf(w, h.deck), hand |-> SymbolsOf(w, h.hand)]

\* the turn count and the damage of every Fireball of a list, in order
FireballsOf(w, ids) ==
    LET fs == SelectSeq(ids, LAMBDA c : IsFireball(w.cards[c]))
    IN  [i \in 1..Len(fs) |-> <<w.cards[fs[i]].turns_in_hand,
                                 w.cards[fs[i]].effect[DAMAGE]>>]

\* symbol, health and shield of every minion of a roster, in order
Triples(w, minions) ==
    [i \in 1..Len(minions) |-> <<w.cards[minions[i]].symbol,
                                 w.cards[minions[i]].health,
                                 w.cards[minions[i]].shield>>]

\* C27: for every game state reached from a loaded snapshot, decoding the
\* encoding of the state gives a state with the same hero health, shield
\* and energy capacity, the same deck and hand symbol sequences (each
\* Fireball with its turn count and damage) and the same symbol, health
\* and shield triples in both rosters in the same order; encoding the
\* decoded state gives the same string again.
C27_RoundTrip ==
    LET game_state == model_str(World)
        d == load_game_state(game_state)
    IN  /\ d.raised = NoRaise
        /\ HeroView(d.w, d.w.player) = HeroView(World, player)
        /\ HeroView(d.w, d.w.enemy) = HeroView(World, enemy)
        /\ \A l \in {"deck", "hand"} :
               /\ FireballsOf(d.w, d.w.player[l])
                      = FireballsOf(World, player[l])
               /\ FireballsOf(d.w, d.w.enemy[l])
                      = FireballsOf(World, enemy[l])
        /\ Triples(d.w, d.w.active_player_minions)
               = Triples(World, active_player_minions)
        /\ Triples(d.w, d.w.active_enemy_minions)
               = Triples(World, active_enemy_minions)
        /\ model_str(d.w) = game_state

\* a state with energy spent, a Fireball that took a turn in a hand, an
\* empty deck, an empty roster and a roster minion that gained shield
C27_Witness ==
    /\ player.energy < player.energy_capacity
    /\ \E c \in Elems(player.hand) \cup Elems(enemy.hand) :
           IsFireball(cards[c]) /\ cards[c].turns_in_hand >= 1
    /\ Len(player.deck) = 0 \/ Len(enemy.deck) = 0
    /\ Len(active_player_minions) = 0 \/ Len(active_enemy_minions) = 0
    /\ \E m \in Elems(active_player_minions)
                  \cup Elems(active_enemy_minions) : cards[m].shield > 0

\* C28: decoding a snapshot sets each hero's energy to its stored energy
\* capacity (energy spent before the save is not kept), creates every
\* minion of a deck or a hand with health 1 and shield 0 and creates the
\* roster minions with the health and shield of their triples.
C28_DecodeDefaults ==
    LET d == load_game_state(model_str(World))
        made(h) == Elems(h.deck) \cup Elems(h.hand)
    IN  /\ d.raised = NoRaise
        /\ d.w.player.energy = player.energy_capacity
        /\ d.w.enemy.energy = enemy.energy_capacity
        /\ \A c \in made(d.w.player) \cup made(d.w.enemy) :
               d.w.cards[c].is_permanent =>
                   d.w.cards[c].health = 1 /\ d.w.cards[c].shield = 0
        /\ \A i \in 1..Len(active_player_minions) :
               StatsRec(d.w, d.w.active_player_minions[i])
                   = StatsRec(World, active_player_minions[i])
        /\ \A i \in 1..Len(active_enemy_minions) :
               StatsRec(d.w, d.w.active_enemy_minions[i])
                   = StatsRec(World, active_enemy_minions[i])

\* both heroes have spent energy, a hand holds a minion, and a roster
\* holds a minion whose health and shield are not 1 and 0
C28_Witness ==
    /\ player.energy < player.energy_capacity
    /\ enemy.energy < enemy.energy_capacity
    /\ \E c \in Elems(player.hand) \cup Elems(enemy.hand) :
           cards[c].is_permanent
    /\ \E m \in Elems(active_player_minions)
                  \cup Elems(active_enemy_minions) :
           cards[m].health > 1 /\ cards[m].shield > 0

---------------------------------------------------------------------------
(* Hearthstone.load_game on the files explored: two snapshot lines, every *)
(* text that differs from the first in one character, and files with a    *)
(* line terminator and more lines.                                        *)

BaseLine ==
    model_str(load_game(
        Game(HeroFields(5, 0, 1, <<S>>, <<F(1)>>),
             <<MinionFields(W, 1, 0)>>,
             HeroFields(3, 0, 2, <<M>>, <<>>),
             <<MinionFields(R, 2, 1), MinionFields(M, 1, 0)>>)))

EmptyLine ==
    model_str(load_game(
        Game(HeroFields(1, 0, 0, <<>>, <<>>), <<>>,
             HeroFields(1, 0, 0, <<>>, <<>>), <<>>)))

\* the characters an edit writes
EditChars == {"X", ",", ";", "|", "7"}

\* every text that is `s` with one character replaced or taken out
Edits(s) ==
    {[s EXCEPT ![i] = ch] : i \in 1..Len(s), ch \in EditChars}
        \cup {SubSeq(s, 1, i - 1) \o SubSeq(s, i + 1, Len(s)) :
                  i \in 1..Len(s)}

Files ==
    {BaseLine, EmptyLine, BaseLine \o <<"\n">>, EmptyLine \o <<"\n">>,
     BaseLine \o <<"\n">> \o EmptyLine \o <<"\n">>}
        \cup Edits(BaseLine)

InitLoad ==
    LET w == load_game_state(EmptyLine).w
    IN  /\ cards = w.cards
        /\ player = w.player
        /\ enemy = w.enemy
        /\ active_player_minions = w.active_player_minions
        /\ active_enemy_minions = w.active_enemy_minions
        /\ pc = "load"
        /\ iter = <<>>
        /\ idx = 0
        /\ played = <<>>
        /\ op = [name |-> "__init__", file |-> EmptyLine]
        /\ ret = [raised |-> NoRaise, value |-> "None"]
        /\ trace = <<>>
        /\ turn = 0
        /\ autosave = NoSave

\* load_game(file): the model is replaced unless an exception is raised
LoadGame ==
    /\ pc = "load"
    /\ \E file \in Files :
          \E r \in {load_game_state(file)} :
              /\ op' = [name |-> "load_game", file |-> file]
              /\ ret' = [raised |-> r.raised, value |-> "None"]
              /\ IF r.raised = NoRaise
                 THEN Commit(r.w)
                 ELSE UNCHANGED <<cards, player, enemy,
                                  active_player_minions,
                                  active_enemy_minions>>
    /\ UNCHANGED <<pc, iter, idx, played, trace, turn, autosave>>

NextLoad == LoadGame

SpecLoad == InitLoad /\ [][NextLoad]_vars

\* the fields of a text, by the places of its separators
SepPlaces(s, sep) == {i \in 1..Len(s) : s[i] = sep}

FieldCount(s, sep) == Cardinality(SepPlaces(s, sep)) + 1

Field(s, sep, k) ==
    LET ends == SepPlaces(s, sep) \cup {0, Len(s) + 1}
        place(n) == CHOOSE e \in ends :
                        Cardinality({x \in ends : x < e}) = n
    IN  SubSeq(s, place(k - 1) + 1, place(k) - 1)

FieldsOf(s, sep) == [k \in 1..FieldCount(s, sep) |-> Field(s, sep, k)]

IsNumber(s) ==
    /\ s # <<>>
    /\ \A i \in 1..Len(s) : s[i] \in {DigitChars[d] : d \in 1..10}

CatalogSymbol(x) ==
    \/ x \in {CARD_SYMBOL, SHIELD_SYMBOL, HEAL_SYMBOL, MINION_SYMBOL,
               WYRM_SYMBOL, RAPTOR_SYMBOL}
    \/ IsNumber(x)

RosterSymbol(x) == x \in {MINION_SYMBOL, WYRM_SYMBOL, RAPTOR_SYMBOL}

\* the snapshot line of a file, without its line terminator
FirstLine(file) == Field(file, "\n", 1)

\* a list of cards of the catalog, possibly empty
WellFormedCards(l) ==
    l = <<>> \/ \A k \in 1..FieldCount(l, ",") :
                    CatalogSymbol(Field(l, ",", k))

ThreeNumbers(t) ==
    /\ FieldCount(t, ",") = 3
    /\ \A k \in 1..3 : IsNumber(Field(t, ",", k))

WellFormedHero(h) ==
    /\ FieldCount(h, ";") = 3
    /\ ThreeNumbers(Field(h, ";", 1))
    /\ WellFormedCards(Field(h, ";", 2))
    /\ WellFormedCards(Field(h, ";", 3))

WellFormedTriple(t) ==
    /\ FieldCount(t, ",") = 3
    /\ RosterSymbol(Field(t, ",", 1))
    /\ IsNumber(Field(t, ",", 2))
    /\ IsNumber(Field(t, ",", 3))

WellFormedRoster(r) ==
    r = <<>> \/ \A k \in 1..FieldCount(r, ";") :
                    WellFormedTriple(Field(r, ";", k))

\* a snapshot line as HearthModel.__str__ writes them
WellFormed(line) ==
    /\ FieldCount(line, "|") = 4
    /\ WellFormedHero(Field(line, "|", 1))
    /\ WellFormedRoster(Field(line, "|", 2))
    /\ WellFormedHero(Field(line, "|", 3))
    /\ WellFormedRoster(Field(line, "|", 4))

\* C29 as stated: decoding a malformed snapshot fails with an error
\* propagated to the caller instead of producing a game state; malformed
\* is a wrong number of '|' or ';' fields, stats that are not numbers, or
\* a card or minion symbol that is not in the catalog.
C29_MalformedRaises ==
    (op.name = "load_game" /\ ~WellFormed(FirstLine(op.file)))
        => ret.raised # NoRaise

\* a hero part the decoder cannot read: not three ';' fields, or stats
\* that are not three numbers
BrokenHero(h) ==
    \/ FieldCount(h, ";") # 3
    \/ ~ThreeNumbers(Field(h, ";", 1))

\* a roster the decoder cannot read: an entry that is not three ','
\* fields, or an entry for M, W or R whose health or shield is no number
BrokenRoster(r) ==
    /\ r # <<>>
    /\ \E k \in 1..FieldCount(r, ";") :
           LET t == Field(r, ";", k)
           IN  \/ FieldCount(t, ",") # 3
               \/ /\ RosterSymbol(Field(t, ",", 1))
                  /\ ~(IsNumber(Field(t, ",", 2))
                          /\ IsNumber(Field(t, ",", 3)))

Broken(line) ==
    \/ FieldCount(line, "|") < 4
    \/ BrokenHero(Field(line, "|", 1))
    \/ BrokenRoster(Field(line, "|", 2))
    \/ BrokenHero(Field(line, "|", 3))
    \/ BrokenRoster(Field(line, "|", 4))

\* the cards a list of the line stands for: the symbols of the catalog
KnownCards(l) == SelectSeq(FieldsOf(l, ","), CatalogSymbol)

\* the roster entries of the line that stand for a minion
KnownTriples(r) ==
    LET ts == SelectSeq(FieldsOf(r, ";"),
                        LAMBDA t : RosterSymbol(Field(t, ",", 1)))
    IN  [k \in 1..Len(ts) |-> <<Field(ts[k], ",", 1),
                                ToInt(Field(ts[k], ",", 2)),
                                ToInt(Field(ts[k], ",", 3))>>]

\* what load_game does with a line it can read
LoadedFrom(line) ==
    LET p == Field(line, "|", 1)
        e == Field(line, "|", 3)
    IN  /\ SymbolsOf(World, player.deck) = KnownCards(Field(p, ";", 2))
        /\ SymbolsOf(World, player.hand) = KnownCards(Field(p, ";", 3))
        /\ SymbolsOf(World, enemy.deck) = KnownCards(Field(e, ";", 2))
        /\ SymbolsOf(World, enemy.hand) = KnownCards(Field(e, ";", 3))
        /\ Triples(World, active_player_minions)
               = KnownTriples(Field(line, "|", 2))
        /\ Triples(World, active_enemy_minions)
               = KnownTriples(Field(line, "|", 4))

\* C29 as amended: decoding fails with an error, and the game state stays
\* as it was, exactly when the line has fewer than four '|' fields, a hero
\* part without exactly three ';' fields or without exactly three numeric
\* stats, or a roster entry without exactly three ',' fields or an M, W or
\* R entry with a non-numeric health or shield; a card or minion symbol
\* that is not in the catalog is skipped and fields after the fourth '|'
\* are ignored, without an error.
C29_BrokenRaises ==
    /\ [](op.name = "load_game" =>
             /\ ret.raised # NoRaise <=> Broken(FirstLine(op.file))
             /\ ret.raised = NoRaise => LoadedFrom(FirstLine(op.file)))
    /\ [][(op'.name = "load_game" /\ ret'.raised # NoRaise)
             => WorldNext = World]_vars

\* a line with a stat that is not a number was refused after a game with
\* minions had been loaded, and that game is still there
C29_Witness ==
    /\ op.name = "load_game"
    /\ ret.raised = "ValueError"
    /\ FieldCount(op.file, "|") = 4
    /\ ~BrokenHero(Field(op.file, "|", 3))
    /\ FieldCount(Field(op.file, "|", 1), ";") = 3
    /\ ~BrokenRoster(Field(op.file, "|", 2))
    /\ ~BrokenRoster(Field(op.file, "|", 4))
    /\ Len(active_enemy_minions) = 2

---------------------------------------------------------------------------
(* Totality of play_card, discard_card and end_turn *)

\* C30: from every well-formed state (rosters of at most 5 minions, any
\* hand and deck sizes, any energy) play_card and discard_card with a card
\* of the player's hand and end_turn complete without raising an error:
\* play_card returns a boolean, discard_card returns None and end_turn
\* returns the list of the cards the enemy played.
C30_Total ==
    /\ ret.raised = NoRaise
    /\ op.name = "play_card" => ret.value \in BOOLEAN
    /\ op.name = "discard_card" => ret.value = "None"
    /\ Returned => ret.value = (IF ReturnedEarly THEN <<>> ELSE played)

\* end_turn ran to its end from a state with no minion in either roster
\* and a player with no energy and no card in hand
C30_Witness ==
    /\ ReturnedAtEnd
    /\ Len(op.before.active_player_minions) = 0
    /\ Len(op.before.active_enemy_minions) = 0
    /\ op.before.player.energy = 0
    /\ Len(op.before.player.hand) = 0

---------------------------------------------------------------------------
(* The generic Minion *)

IsGeneric(c) == c.type = "Minion"

\* the step of a generic Minion: it is its own target, nothing changes
GenericStep ==
    (MinionStep /\ IsGeneric(cards[Last(trace').minion])) =>
        /\ Last(trace').target = Last(trace').minion
        /\ \A r \in EntityRefs(World) : Stats(WorldNext, r) = Stats(World, r)

\* the player's sweep over a roster of generic Minions only, so far
GenericSweep ==
    (/\ pc = "player_minions"
     /\ \A i \in 1..Len(iter) : IsGeneric(cards[iter[i]]))
        => \A r \in EntityRefs(World) : Stats(World, r) = Stats(op.before, r)

\* C31: a generic Minion always chooses itself as target and, its effect
\* being empty, its effect resolution changes no entity's health or
\* shield; a roster of generic Minions only leaves every health and
\* shield as it was across the minion sweep of end_turn.
C31_GenericMinion == []GenericSweep /\ [][GenericStep]_vars

\* the player's sweep has run over two or more generic Minions
C31_Witness ==
    /\ pc = "player_minions"
    /\ Len(iter) >= 2
    /\ idx > Len(iter)
    /\ \A i \in 1..Len(iter) : IsGeneric(cards[iter[i]])
    /\ Last(trace).target = Last(trace).minion

---------------------------------------------------------------------------
(* The size of the hands *)

HandAfterNewTurn(who, h, hn) ==
    NewTurnStep(who) => Len(hn.hand) = Min(5, Len(h.hand) + Len(h.deck))

\* C32: from an initial state in which both hands hold at most 5 cards,
\* both hands hold at most 5 cards in every state reached by play_card,
\* discard_card and end_turn; after a new_turn the hand size is
\* min(5, hand size before + deck size before).
C32_HandCap ==
    /\ [](Len(player.hand) <= 5 /\ Len(enemy.hand) <= 5)
    /\ [][/\ HandAfterNewTurn(PlayerId, player, player')
          /\ HandAfterNewTurn(EnemyId, enemy, enemy')]_vars

\* the enemy's refresh filled its hand to 5 with cards left in the deck,
\* and the player's refresh drew the whole deck without reaching 5
C32_Witness ==
    /\ ReturnedAtEnd
    /\ Len(enemy.hand) + Len(PlayedTypes) = 5
    /\ Len(enemy.deck) > 0
    /\ Len(player.deck) = 0
    /\ Len(op.before.player.deck) > 0
    /\ Len(player.hand) < 5

---------------------------------------------------------------------------
(* The life of a minion: played, acting in the sweeps, evicted or pruned *)

\* the six zones of a world
Zones(w) == <<w.player.hand, w.player.deck, w.active_player_minions,
              w.enemy.hand, w.enemy.deck, w.active_enemy_minions>>

InSomeZone(w, c) == \E z \in 1..6 : c \in Elems(Zones(w)[z])

\* the minions that left a roster alive: the ones an insertion into a
\* full roster pushed out
Evicted(w) ==
    {c \in DOMAIN w.cards :
        /\ w.cards[c].is_permanent
        /\ w.cards[c].health > 0
        /\ ~InSomeZone(w, c)}

\* the steps of the trace in which the minion m resolved its effect
ActsOf(m) ==
    {k \in 1..Len(trace) :
        /\ trace[k].step \in {"player_minion", "enemy_minion"}
        /\ trace[k].minion = m}

\* when the enemy's sweep is over, every minion the enemy played in this
\* end_turn and did not lose again has resolved its effect in it
EnemyPlayedActs ==
    (pc = "enemy_minions" /\ idx > Len(iter)) =>
        \A k \in 1..Len(trace) :
            (/\ trace[k].step = "enemy_card"
             /\ cards[trace[k].card].is_permanent
             /\ trace[k].card \notin Evicted(World))
                => \E j \in ActsOf(trace[k].card) :
                       j > k /\ trace[j].step = "enemy_minion"

\* a minion the player has just played has not acted, and when the
\* player's sweep of an end_turn is over every minion that was in the
\* player's roster at the call has acted once
PlayerPlayedActsNext ==
    /\ (op.name = "play_card" /\ ret.value = TRUE
            /\ cards[op.card].is_permanent) => ActsOf(op.card) = {}
    /\ (pc = "player_minions" /\ idx > Len(iter)) =>
           \A m \in Elems(op.before.active_player_minions) :
               Cardinality(ActsOf(m)) = 1

\* no step is the effect of an evicted minion
EvictedIsInert == MinionStep => Last(trace').minion \notin Evicted(World)

\* C33: a minion the enemy plays in the card loop of an end_turn resolves
\* its effect in the enemy sweep of the same end_turn (unless it is
\* evicted again before the sweep); a minion evicted from a full roster
\* resolves no effect after its eviction; a minion the player plays first
\* acts in the player sweep of the next end_turn.
C33_MinionLife ==
    /\ [](EnemyPlayedActs /\ PlayerPlayedActsNext)
    /\ [][EvictedIsInert]_vars

\* the enemy played a minion into its full roster, the sweep ran over the
\* new minion and not over the evicted one, and the player's sweep ran
\* over a full roster
C33_Witness ==
    /\ pc = "enemy_minions"
    /\ idx > Len(iter)
    /\ EnemyFilledFullRoster
    /\ Evicted(World) # {}
    /\ Len(StepsOf("player_minion")) = 5
    /\ \E k \in 1..Len(trace) :
           /\ trace[k].step = "enemy_card"
           /\ ActsOf(trace[k].card) # {}

\* a card that is in no zone stays in no zone
GoneStaysGone ==
    \A c \in DOMAIN cards :
        ~InSomeZone(World, c) => ~InSomeZone(WorldNext, c)

\* a minion that leaves a roster goes to no zone
RemovedIsGone ==
    \A c \in Elems(active_player_minions) \cup Elems(active_enemy_minions) :
        (c \notin Elems(active_player_minions')
                       \cup Elems(active_enemy_minions'))
            => ~InSomeZone(WorldNext, c)

\* a non-permanent card that was played is in no zone
PlayedIsGone ==
    /\ (op.name = "play_card" /\ ret.value = TRUE
            /\ ~cards[op.card].is_permanent) => ~InSomeZone(World, op.card)
    /\ \A k \in 1..Len(trace) :
           (trace[k].step = "enemy_card"
                /\ ~cards[trace[k].card].is_permanent)
               => ~InSomeZone(World, trace[k].card)

\* C34: a minion removed from a roster, evicted at index 0 by an insertion
\* into a full roster or pruned at health 0, is destroyed: it never
\* afterwards appears in a roster, hand or deck; a non-permanent card that
\* has been played never reappears in a hand or deck.
C34_Destroyed ==
    /\ []PlayedIsGone
    /\ [][GoneStaysGone /\ RemovedIsGone]_vars

\* an evicted minion, a pruned minion and a played non-permanent card of
\* each hero are in no zone, an end_turn and a discard later
C34_Witness ==
    /\ op.name = "discard_card"
    /\ turn >= 1
    /\ Evicted(World) # {}
    /\ \E c \in DOMAIN cards :
           cards[c].is_permanent /\ cards[c].health = 0
               /\ ~InSomeZone(World, c)
    /\ \E c \in DOMAIN cards :
           ~cards[c].is_permanent /\ ~InSomeZone(World, c)

---------------------------------------------------------------------------
(* The decks *)

\* the deck `new` is the deck `old` without some cards at its front
FrontRemoved(old, new) ==
    /\ Len(new) <= Len(old)
    /\ new = SubSeq(old, Len(old) - Len(new) + 1, Len(old))

\* the step is the call named `name`, made between two end_turns
CallStep(name) == pc = "idle" /\ pc' = "idle" /\ op'.name = name

DeckStep ==
    /\ Len(enemy'.deck) <= Len(enemy.deck)
    /\ IF CallStep("discard_card")
       THEN /\ Len(player'.deck) = Len(player.deck) + 1
            /\ enemy'.deck = enemy.deck
       ELSE IF CallStep("play_card")
       THEN player'.deck = player.deck /\ enemy'.deck = enemy.deck
       ELSE /\ FrontRemoved(player.deck, player'.deck)
            /\ FrontRemoved(enemy.deck, enemy'.deck)

\* C37: the enemy's deck size never increases; the player's deck size
\* increases only by discard_card, by exactly 1; play_card never changes
\* either deck; end_turn changes each deck only by removing cards from
\* its front.
C37_DeckSizes == [][DeckStep]_vars

\* after an end_turn that drew from both decks and left cards in both, the
\* player discarded a card
C37_Witness ==
    /\ op.name = "discard_card"
    /\ Len(StepsOf("player_new_turn")) = 1
    /\ Len(player.deck) = Len(op.before.player.deck) + 1
    /\ Len(player.deck) >= 2
    /\ Len(enemy.deck) >= 1
    /\ Len(enemy.hand) >= 1

---------------------------------------------------------------------------
(* Where a card is *)

\* all six zones laid end to end
AllZones(w) ==
    Zones(w)[1] \o Zones(w)[2] \o Zones(w)[3] \o Zones(w)[4]
        \o Zones(w)[5] \o Zones(w)[6]

\* C38: in every reachable state each card instance is in at most one
\* place: no card appears twice within a hand, deck or roster and no card
\* is in two of the six zones at once.
C38_OnePlace ==
    Cardinality(Elems(AllZones(World))) = Len(AllZones(World))

\* every zone holds a card after the player discarded a card, in a turn
\* after an end_turn in which the enemy played a minion
C38_Witness ==
    /\ op.name = "discard_card"
    /\ \A z \in 1..6 : Len(Zones(World)[z]) > 0
    /\ \E k \in 1..Len(trace) :
           /\ trace[k].step = "enemy_card"
           /\ trace[k].card \in Elems(active_enemy_minions)

---------------------------------------------------------------------------
(* Hearthstone.play: the loop of the controller.  pc is "loop" at the     *)
(* test of the while-loop, "command" once get_command has been passed,    *)
(* inside end_turn as before, "idle" when end_turn has returned to the    *)
(* loop and "exited" after the loop.                                      *)

GameOver(w) == has_won(w) \/ has_lost(w)

\* a game of several turns: the player draws 5 of its 6 cards at the end
\* of the first end_turn, the enemy has one card left to draw
PlayFileLong ==
    model_str(load_game(
        Game(HeroFields(9, 0, 0, <<H, H, S, H, H, S>>, <<>>),
             <<>>,
             HeroFields(4, 0, 2, <<S>>, <<F(0), H, S, M, W>>),
             <<MinionFields(R, 1, 0)>>)))

\* a game the player loses at the first end_turn, with cards to play
PlayFileShort ==
    model_str(load_game(
        Game(HeroFields(2, 0, 3, <<S>>, <<F(0), W>>),
             <<MinionFields(R, 2, 0)>>,
             HeroFields(3, 1, 1, <<H, S, M>>, <<S, M>>),
             <<MinionFields(W, 1, 0)>>)))

\* a game that is won already: the enemy's deck is empty
PlayFileWon ==
    model_str(load_game(
        Game(HeroFields(5, 0, 1, <<S>>, <<H>>), <<>>,
             HeroFields(5, 0, 1, <<>>, <<S>>), <<>>)))

\* a file without a valid game state
PlayFileBad == Tail(PlayFileLong)

\* the files a load command can name: their content, or that they are
\* missing; the autosave file is one of them once it has been written
PlayFiles ==
    {[missing |-> FALSE, content |-> f] :
        f \in {PlayFileLong, PlayFileShort, PlayFileWon, PlayFileBad}
                  \cup ({autosave} \ {NoSave})}
        \cup {[missing |-> TRUE, content |-> <<>>]}

\* open(file) and load_game: FileNotFoundError for a missing file
open_and_load(file) ==
    IF file.missing THEN [raised |-> "FileNotFoundError"]
    ELSE load_game_state(file.content)

InitPlay ==
    \E f \in {PlayFileLong, PlayFileShort, PlayFileWon} :
        LET w == load_game_state(f).w
        IN  /\ cards = w.cards
            /\ player = w.player
            /\ enemy = w.enemy
            /\ active_player_minions = w.active_player_minions
            /\ active_enemy_minions = w.active_enemy_minions
            /\ pc = "loop"
            /\ iter = <<>>
            /\ idx = 0
            /\ played = <<>>
            /\ op = [name |-> "__init__"]
            /\ ret = [raised |-> NoRaise, value |-> "None"]
            /\ trace = <<>>
            /\ turn = 0
            /\ autosave = NoSave

\* while not (_model.has_won() or _model.has_lost())
LoopTest ==
    /\ pc = "loop"
    /\ pc' = IF GameOver(World) THEN "exited" ELSE "command"
    /\ UNCHANGED <<cards, player, enemy, active_player_minions,
                   active_enemy_minions, iter, idx, played, op, ret, trace,
                   turn, autosave>>

CmdHelp ==
    /\ pc = "command"
    /\ pc' = "loop"
    /\ op' = [name |-> "help"]
    /\ ret' = [raised |-> NoRaise, value |-> "None"]
    /\ UNCHANGED <<cards, player, enemy, active_player_minions,
                   active_enemy_minions, iter, idx, played, trace, turn,
                   autosave>>

\* the targets the play command can pass: the dummy for a permanent card
\* (the player stands for it), else a hero or a minion in a slot
CmdTargets(w, card) ==
    IF w.cards[card].is_permanent THEN {PlayerId} ELSE Targets(w)

CmdPlay ==
    /\ pc = "command"
    /\ \E i \in 1..Len(player.hand) :
          \E target \in CmdTargets(World, player.hand[i]) :
              \E r \in {play_card(World, player.hand[i], target)} :
                  /\ Commit(r.w)
                  /\ op' = [name |-> "play_card", card |-> player.hand[i],
                            target |-> target]
                  /\ ret' = [raised |-> r.raised, value |-> r.value]
    /\ pc' = "loop"
    /\ UNCHANGED <<iter, idx, played, trace, turn, autosave>>

CmdDiscard ==
    /\ pc = "command"
    /\ \E i \in 1..Len(player.hand) :
          /\ Commit(discard_card(World, player.hand[i]))
          /\ op' = [name |-> "discard_card", card |-> player.hand[i]]
    /\ ret' = [raised |-> NoRaise, value |-> "None"]
    /\ pc' = "loop"
    /\ UNCHANGED <<iter, idx, played, trace, turn, autosave>>

\* a load command that falls back on the autosave when the load fails
CmdLoad_falls_back ==
    /\ pc = "command"
    /\ \E file \in PlayFiles :
          \E r \in {open_and_load(file)} :
              /\ op' = [name |-> "load_game", file |-> file]
              /\ ret' = [raised |-> r.raised, value |-> "None"]
              /\ IF r.raised = NoRaise
                 THEN /\ Commit(r.w)
                      /\ played' = <<>>
                      /\ trace' = <<>>
                      /\ turn' = 0
                 ELSE /\ IF autosave = NoSave
                         THEN UNCHANGED <<cards, player, enemy,
                                          active_player_minions,
                                          active_enemy_minions>>
                         ELSE Commit(load_game_state(autosave).w)
                      /\ UNCHANGED <<played, trace, turn>>
    /\ pc' = "loop"
    /\ UNCHANGED <<iter, idx, autosave>>

\* the load command: load_game inside try/except; the model in play is
\* replaced only when load_game returns
CmdLoad ==
    /\ pc = "command"
    /\ \E file \in PlayFiles :
          \E r \in {open_and_load(file)} :
              /\ op' = [name |-> "load_game", file |-> file]
              /\ ret' = [raised |-> r.raised, value |-> "None"]
              /\ IF r.raised = NoRaise
                 THEN /\ Commit(r.w)
                      /\ played' = <<>>
                      /\ trace' = <<>>
                      /\ turn' = 0
                 ELSE UNCHANGED <<cards, player, enemy,
                                  active_player_minions,
                                  active_enemy_minions, played, trace, turn>>
    /\ pc' = "loop"
    /\ UNCHANGED <<iter, idx, autosave>>

\* the end turn command, up to the call of end_turn
CmdEndTurn ==
    /\ pc = "command"
    /\ turn < MaxPlayTurns
    /\ turn' = turn + 1
    /\ pc' = "player_minions"
    /\ iter' = active_player_minions
    /\ idx' = 1
    /\ played' = <<>>
    /\ trace' = <<>>
    /\ op' = [name |-> "end_turn", before |-> World]
    /\ ret' = [raised |-> NoRaise, value |-> Pending]
    /\ UNCHANGED <<cards, player, enemy, active_player_minions,
                   active_enemy_minions, autosave>>

\* an end turn command that saves the game whatever its state
AfterEndTurn_always_saves ==
    /\ pc = "idle"
    /\ autosave' = model_str(World)
    /\ pc' = "loop"
    /\ UNCHANGED <<cards, player, enemy, active_player_minions,
                   active_enemy_minions, iter, idx, played, op, ret, trace,
                   turn>>

\* the end turn command after end_turn has returned: save_game unless the
\* game is won or lost
AfterEndTurn ==
    /\ pc = "idle"
    /\ autosave' = IF GameOver(World) THEN autosave ELSE model_str(World)
    /\ pc' = "loop"
    /\ UNCHANGED <<cards, player, enemy, active_player_minions,
                   active_enemy_minions, iter, idx, played, op, ret, trace,
                   turn>>

NextPlay ==
    \/ LoopTest
    \/ CmdHelp
    \/ CmdPlay
    \/ CmdDiscard
    \/ CmdLoad
    \/ CmdEndTurn
    \/ PlayerMinionActs
    \/ EnemyNewTurn
    \/ EnemyCardLoop
    \/ EnemyMinionActs
    \/ PlayerNewTurn
    \/ AfterEndTurn

SpecPlay == InitPlay /\ [][NextPlay]_vars

\* the step hands the model a play_card, a discard_card or an end_turn
IssuesOperation ==
    /\ pc = "command"
    /\ op'.name \in {"play_card", "discard_card", "end_turn"}

\* the loop hands the model an operation only while the game is in
\* progress, and leaves as soon as it is not
NoOperationOnceOver ==
    /\ IssuesOperation => ~GameOver(World)
    /\ (pc = "loop" /\ GameOver(World)) => pc' = "exited"
    /\ pc = "exited" => UNCHANGED vars

\* the autosave is written right after an end_turn that leaves the game
\* in progress, with the snapshot of that state, and at no other time
SavesAfterEndTurn ==
    IF pc = "idle" /\ op.name = "end_turn" /\ ~GameOver(World)
    THEN autosave' = model_str(World)
    ELSE autosave' = autosave

\* the autosave, once written, decodes to a game in progress
AutosaveInProgress ==
    autosave # NoSave =>
        \E d \in {load_game_state(autosave)} :
            d.raised = NoRaise /\ ~GameOver(d.w)

\* C35: the play loop issues no play, discard or end-turn operation to the
\* model once has_won() or has_lost() holds, and it writes the autosave
\* only right after an end_turn that leaves the game in progress, so the
\* autosave never holds a snapshot of a won or lost game, also after a
\* load command replaced the model.
C35_PlayLoop ==
    /\ []AutosaveInProgress
    /\ [][NoOperationOnceOver /\ SavesAfterEndTurn]_vars

\* the loop was left after a second end_turn that won the game: the autosave
\* written after the first end_turn is still the one on file
C35_Witness ==
    /\ pc = "exited"
    /\ op.name = "end_turn"
    /\ has_won(World)
    /\ turn = 2
    /\ autosave # NoSave
    /\ autosave # model_str(World)

\* the step is a load command whose load_game raised
FailedLoad ==
    /\ pc = "command"
    /\ op'.name = "load_game"
    /\ ret'.raised # NoRaise

\* a failed load leaves the objects of the game, the heroes, the hands, the
\* decks and the rosters as they were, and goes back to the loop
FailedLoadKeepsModel ==
    FailedLoad =>
        /\ UNCHANGED <<cards, player, enemy, active_player_minions,
                       active_enemy_minions, autosave>>
        /\ model_str(World)' = model_str(World)
        /\ pc' = "loop"

\* the loop stands right after a failed load
AfterFailedLoad ==
    /\ pc = "loop"
    /\ op.name = "load_game"
    /\ ret.raised # NoRaise

\* after a failed load the loop asks for the next command on the same model
PlayContinues ==
    AfterFailedLoad =>
        /\ pc' = "command"
        /\ UNCHANGED <<cards, player, enemy, active_player_minions,
                       active_enemy_minions>>

\* C39: a load command that fails (missing file or malformed snapshot)
\* leaves the current game state unchanged: the model in play after the
\* failed load is the same model, with the same heroes, hands, decks and
\* rosters, as before it, and play continues on it.
C39_FailedLoad ==
    /\ [](AfterFailedLoad => ~GameOver(World))
    /\ [][FailedLoadKeepsModel /\ PlayContinues]_vars

\* a load of a malformed snapshot failed in the middle of the second turn,
\* after the player had played or discarded cards since the autosave was
\* written
C39_Witness ==
    /\ AfterFailedLoad
    /\ ret.raised = "ValueError"
    /\ ~op.file.missing
    /\ turn = 1
    /\ autosave # NoSave
    /\ autosave # model_str(World)

\* the highest cost of a card
HighestCost == Fireball(0).cost

\* no card costs more than a Fireball
CostsBounded == \A c \in 1..Len(cards) : cards[c].cost <= HighestCost

\* a bound on the end_turn calls a game in progress still has room for: the
\* cards of the enemy's deck, the refreshes until the enemy's capacity
\* reaches the highest cost, and one more while the enemy's hand is full
TurnsLeft(w) ==
    Len(w.enemy.deck)
      + Max(0, HighestCost - w.enemy.energy_capacity)
      + (IF Len(w.enemy.hand) >= 5 THEN 1 ELSE 0)

\* the step is a load command that put a new game in place
SuccessfulLoad ==
    /\ pc = "command"
    /\ op'.name = "load_game"
    /\ ret'.raised = NoRaise

\* within one game no step, of the player or of end_turn, raises the bound
NeverGrows == ~SuccessfulLoad => TurnsLeft(WorldNext) <= TurnsLeft(World)

\* an end_turn called on a game in progress that leaves it in progress
\* lowers the bound
TurnShrinks ==
    (Returned /\ ~GameOver(op.before) /\ ~GameOver(World))
        => TurnsLeft(World) < TurnsLeft(op.before)

\* an end_turn in which the enemy, alive after its refresh, has a capacity
\* of the highest cost or more sees the enemy play at least one card
PlaysAtFullCapacity ==
    (ReturnedAtEnd /\ enemy.energy_capacity >= HighestCost)
        => Len(PlayedTypes) >= 1 /\ Len(enemy.hand) < 5

\* the step is the enemy's refresh of an end_turn
EnemyRefresh ==
    /\ pc = "player_minions"
    /\ Len(trace') = Len(trace) + 1
    /\ Last(trace').step = "enemy_new_turn"

\* a refresh that follows a turn played at that capacity draws at least
\* one card while the enemy's deck holds one
DrawsWhileDeckLasts ==
    (EnemyRefresh /\ turn >= 2 /\ enemy.energy_capacity >= HighestCost
                  /\ Len(enemy.deck) > 0)
        => Len(enemy'.deck) < Len(enemy.deck)

====
